---------------------------- MODULE Spec2Model ----------------------------
(***************************************************************************)
(* A model of tqbf/chess: the chess package (Board, validMoves, Algebraic, *)
(* CoordsToAlgebraic, Move) and the Slack bot's per-channel Game session   *)
(* (Context.Incoming).                                                     *)
(*                                                                         *)
(* Strings are sequences of byte values (Go indexes strings by byte), so   *)
(* the source's comparisons such as piece < 'Z' and piece -= 32 are kept   *)
(* as arithmetic.  Go indexes from 0 and TLA+ sequences from 1: pos[0] in  *)
(* the source is pos[1] here.  A Board is a function on 0..63, as the      *)
(* source indexes it.                                                      *)
(***************************************************************************)
EXTENDS Integers, Sequences, FiniteSets, TLC

VARIABLES
    games,   \* bot.go: var games = map[string]*Game{} (channel -> Game)
    now,     \* the wall clock read by time.Now() / time.Since()
    reply,   \* the branch of Incoming the last message took, i.e. its answer
    hist,    \* an observer of the sessions' past (not program state)
    main,    \* bot.go: main's loop, rtm.IncomingEvents and the calls of Incoming
    call     \* a call of a function of the chess package: its input and result

vars == <<games, now, reply, hist, main, call>>

(***************************************************************************)
(* Bytes and strings                                                       *)
(***************************************************************************)
UpperLetters == <<"A","B","C","D","E","F","G","H","I","J","K","L","M",
                  "N","O","P","Q","R","S","T","U","V","W","X","Y","Z">>

LowerLetters == <<"a","b","c","d","e","f","g","h","i","j","k","l","m",
                  "n","o","p","q","r","s","t","u","v","w","x","y","z">>

Digits == <<"0","1","2","3","4","5","6","7","8","9">>

\* The byte value of a one-character string (ASCII).
OrdTable ==
    [c \in {UpperLetters[i] : i \in 1..26} \cup {LowerLetters[i] : i \in 1..26}
           \cup {Digits[i] : i \in 1..10} \cup {"_", " ", "-", "\n"} |->
        IF \E i \in 1..26 : UpperLetters[i] = c
          THEN 64 + (CHOOSE i \in 1..26 : UpperLetters[i] = c)
        ELSE IF \E i \in 1..26 : LowerLetters[i] = c
          THEN 96 + (CHOOSE i \in 1..26 : LowerLetters[i] = c)
        ELSE IF \E i \in 1..10 : Digits[i] = c
          THEN 47 + (CHOOSE i \in 1..10 : Digits[i] = c)
        ELSE IF c = "_" THEN 95
        ELSE IF c = " " THEN 32
        ELSE IF c = "-" THEN 45
        ELSE 10]

Ord(c) == OrdTable[c]

\* A Go string literal, written as a tuple of its characters.
Str(chars) == [i \in 1..Len(chars) |-> Ord(chars[i])]

\* strings.ToUpper / strings.ToLower on one byte and on a string.
UpperByte(b) == IF b >= Ord("a") /\ b <= Ord("z") THEN b - 32 ELSE b
LowerByte(b) == IF b >= Ord("A") /\ b <= Ord("Z") THEN b + 32 ELSE b
ToUpper(s) == [i \in 1..Len(s) |-> UpperByte(s[i])]
ToLower(s) == [i \in 1..Len(s) |-> LowerByte(s[i])]

\* unicode.IsSpace on the bytes that occur.
IsSpace(b) == b \in {9, 10, 11, 12, 13, 32}

EmptyCell == Ord("_")
NoErr == "nil"

(***************************************************************************)
(* Board: Normalize, Position, PieceAt, Replace                            *)
(***************************************************************************)
RawStartingBoard ==
    Str(<<"\n",
          "R","N","B","Q","K","B","N","R","\n",
          "P","P","P","P","P","P","P","P","\n",
          "_","_","_","_","_","_","_","_","\n",
          "_","_","_","_","_","_","_","_","\n",
          "_","_","_","_","_","_","_","_","\n",
          "_","_","_","_","_","_","_","_","\n",
          "p","p","p","p","p","p","p","p","\n",
          "r","n","b","q","k","b","n","r","\n">>)

\* Board.Normalize: strips the white space; the result is indexed from 0.
Normalize(raw) ==
    [i \in 0..(Len(SelectSeq(raw, LAMBDA b : ~IsSpace(b))) - 1) |->
        SelectSeq(raw, LAMBDA b : ~IsSpace(b))[i + 1]]

StartingBoard == Normalize(RawStartingBoard)

\* Board.Position, after pos = strings.ToUpper(pos).
PositionUpper(up) ==
    IF up[1] < Ord("A") \/ up[1] > Ord("H")
      THEN [p |-> -1, err |-> "bad column"]
    ELSE IF up[2] < Ord("1") \/ up[2] > Ord("8")
      THEN [p |-> -1, err |-> "bad row"]
    ELSE [p |-> ((8 - (up[2] - 48)) * 8) + (up[1] - Ord("A")), err |-> NoErr]

\* A Position without strings.ToUpper.
PositionCaseSensitive(pos) == PositionUpper(pos)

\* Board.Position: the index of a coordinate such as "E2".
Position(pos) == PositionUpper(ToUpper(pos))

\* Board.PieceAt
PieceAt(board, pos) ==
    IF Position(pos).err = NoErr
      THEN [piece |-> <<board[Position(pos).p]>>, err |-> NoErr]
      ELSE [piece |-> <<>>, err |-> Position(pos).err]

\* A Replace that inserts the cell instead of overwriting it.
ReplaceInserting(board, r, i) ==
    [j \in 0..(Cardinality(DOMAIN board)) |->
        IF j < i THEN board[j] ELSE IF j = i THEN r ELSE board[j - 1]]

\* Board.Replace
Replace(board, r, i) == [board EXCEPT ![i] = r]

\* Rows counted from the top of the board.
coordsFromIndexFromTop(pos) == [row |-> (pos \div 8) + 1, col |-> pos % 8]

coordsFromIndex(pos) == [row |-> 8 - (pos \div 8), col |-> pos % 8]

indexFromCoords(row, col) == ((8 - row) * 8) + col

(***************************************************************************)
(* Board.Move                                                              *)
(***************************************************************************)
\* A castling that leaves the rook on its corner as well.
CastleKeepingCorner(board, king, rook, start, stop, rs, re) ==
    Replace(Replace(Replace(board, king, stop), rook, re), EmptyCell, start)

\* The castling branch of Move: king to stop, rook to re, start and rs emptied.
Castle(board, king, rook, start, stop, rs, re) ==
    Replace(Replace(Replace(Replace(board, king, stop), rook, re), EmptyCell, start),
            EmptyCell, rs)

\* The promotion with the far ranks of the two pawns exchanged.
PromotedOnOwnSide(piece, stops) ==
    IF piece = Ord("P") /\ stops[2] = Ord("8") THEN Ord("Q")
    ELSE IF piece = Ord("p") /\ stops[2] = Ord("1") THEN Ord("q")
    ELSE piece

\* The piece written by the last branch of Move: a pawn that reaches the
\* far rank becomes a queen.
Promoted(piece, stops) ==
    IF piece = Ord("p") /\ stops[2] = Ord("8") THEN Ord("q")
    ELSE IF piece = Ord("P") /\ stops[2] = Ord("1") THEN Ord("Q")
    ELSE piece

\* A Move that also refuses a destination that holds a piece.
MoveAtRefusingCaptures(board, starts, stops, start, stop) ==
    IF board[start] = EmptyCell \/ board[stop] # EmptyCell
      THEN [board |-> board, err |-> "no piece at"]
      ELSE [board |-> Replace(Replace(board, board[start], stop), EmptyCell, start),
            err |-> NoErr]

\* A Move that leaves the piece on the source cell as well.
MoveAtKeepingSource(board, starts, stops, start, stop) ==
    IF board[start] = EmptyCell THEN [board |-> board, err |-> "no piece at"]
    ELSE [board |-> Replace(board, board[start], stop), err |-> NoErr]

\* A Move whose last branch empties the source cell before it writes the
\* destination.
MoveAtSourceFirst(board, starts, stops, start, stop) ==
    IF board[start] = EmptyCell THEN [board |-> board, err |-> "no piece at"]
    ELSE IF board[start] = Ord("k") /\ starts = Str(<<"E","1">>)
            /\ (stops = Str(<<"G","1">>) \/ stops = Str(<<"C","1">>))
      THEN [board |-> IF stops = Str(<<"G","1">>)
                        THEN Castle(board, Ord("k"), Ord("r"), start, stop,
                                    Position(Str(<<"H","1">>)).p,
                                    Position(Str(<<"F","1">>)).p)
                        ELSE Castle(board, Ord("k"), Ord("r"), start, stop,
                                    Position(Str(<<"A","1">>)).p,
                                    Position(Str(<<"D","1">>)).p),
            err |-> NoErr]
    ELSE IF board[start] = Ord("K") /\ starts = Str(<<"E","8">>)
            /\ (stops = Str(<<"G","8">>) \/ stops = Str(<<"C","8">>))
      THEN [board |-> IF stops = Str(<<"G","8">>)
                        THEN Castle(board, Ord("K"), Ord("R"), start, stop,
                                    Position(Str(<<"H","8">>)).p,
                                    Position(Str(<<"F","8">>)).p)
                        ELSE Castle(board, Ord("K"), Ord("R"), start, stop,
                                    Position(Str(<<"A","8">>)).p,
                                    Position(Str(<<"D","8">>)).p),
            err |-> NoErr]
    ELSE [board |-> Replace(Replace(board, EmptyCell, start),
                            Promoted(board[start], stops), stop),
          err |-> NoErr]

\* Move from the test of the source cell on: start and stop are the indices
\* of the upper-cased coordinates starts and stops.
MoveAt(board, starts, stops, start, stop) ==
    IF board[start] = EmptyCell THEN [board |-> board, err |-> "no piece at"]
    ELSE IF board[start] = Ord("k") /\ starts = Str(<<"E","1">>)
            /\ (stops = Str(<<"G","1">>) \/ stops = Str(<<"C","1">>))
      THEN [board |-> IF stops = Str(<<"G","1">>)
                        THEN Castle(board, Ord("k"), Ord("r"), start, stop,
                                    Position(Str(<<"H","1">>)).p,
                                    Position(Str(<<"F","1">>)).p)
                        ELSE Castle(board, Ord("k"), Ord("r"), start, stop,
                                    Position(Str(<<"A","1">>)).p,
                                    Position(Str(<<"D","1">>)).p),
            err |-> NoErr]
    ELSE IF board[start] = Ord("K") /\ starts = Str(<<"E","8">>)
            /\ (stops = Str(<<"G","8">>) \/ stops = Str(<<"C","8">>))
      THEN [board |-> IF stops = Str(<<"G","8">>)
                        THEN Castle(board, Ord("K"), Ord("R"), start, stop,
                                    Position(Str(<<"H","8">>)).p,
                                    Position(Str(<<"F","8">>)).p)
                        ELSE Castle(board, Ord("K"), Ord("R"), start, stop,
                                    Position(Str(<<"A","8">>)).p,
                                    Position(Str(<<"D","8">>)).p),
            err |-> NoErr]
    ELSE [board |-> Replace(Replace(board, Promoted(board[start], stops), stop),
                            EmptyCell, start),
          err |-> NoErr]

\* Move after starts and stops are upper-cased.
MoveUpper(board, starts, stops) ==
    IF Position(starts).err # NoErr
      THEN [board |-> board, err |-> Position(starts).err]
    ELSE IF Position(stops).err # NoErr
      THEN [board |-> board, err |-> Position(stops).err]
    ELSE MoveAt(board, starts, stops, Position(starts).p, Position(stops).p)

Move(board, starts, stops) == MoveUpper(board, ToUpper(starts), ToUpper(stops))

(***************************************************************************)
(* Board.validMoves: the pseudo-legal destinations of the piece at pos, in *)
(* the order the source appends them (a destination can occur twice).      *)
(***************************************************************************)
empty(board, r, c) == board[indexFromCoords(r, c)] = EmptyCell

opponentAt(board, piece, r, c) ==
    IF empty(board, r, c) THEN FALSE
    ELSE IF piece < Ord("Z") THEN board[indexFromCoords(r, c)] >= Ord("a")
    ELSE board[indexFromCoords(r, c)] < Ord("Z")

\* yep(r, c) under a condition: the appended coord, or nothing.
yep(cond, r, c) == IF cond THEN <<[row |-> r, col |-> c]>> ELSE <<>>

\* A ray that also takes the first piece it meets when it is the mover's own.
RECURSIVE cruiseCapturingAnything(_, _, _, _, _, _)
cruiseCapturingAnything(board, piece, r, c, dr, dc) ==
    IF r < 1 \/ r > 8 \/ c < 0 \/ c > 7 THEN <<>>
    ELSE IF empty(board, r, c)
      THEN <<[row |-> r, col |-> c]>>
           \o cruiseCapturingAnything(board, piece, r + dr, c + dc, dr, dc)
    ELSE <<[row |-> r, col |-> c]>>

\* One for-loop over cruise: from (r, c) in steps of (dr, dc) while on the
\* board and cruise returns true.
RECURSIVE cruise(_, _, _, _, _, _)
cruise(board, piece, r, c, dr, dc) ==
    IF r < 1 \/ r > 8 \/ c < 0 \/ c > 7 THEN <<>>
    ELSE IF empty(board, r, c)
      THEN <<[row |-> r, col |-> c]>> \o cruise(board, piece, r + dr, c + dc, dr, dc)
    ELSE IF opponentAt(board, piece, r, c) THEN <<[row |-> r, col |-> c]>>
    ELSE <<>>

\* case 'P': the upper-case pawn, which moves towards rank 1.
PawnUpperMoves(board, piece, or, oc) ==
    IF or = 1 THEN <<>>
    ELSE   yep(empty(board, or - 1, oc), or - 1, oc)
        \o yep(oc # 0 /\ opponentAt(board, piece, or - 1, oc - 1), or - 1, oc - 1)
        \o yep(oc # 7 /\ opponentAt(board, piece, or - 1, oc + 1), or - 1, oc + 1)
        \o yep(or = 7 /\ empty(board, or - 2, oc), or - 2, oc)
        \o yep(or = 4 /\ oc # 0 /\ board[indexFromCoords(or, oc - 1)] = Ord("p"),
               or - 1, oc - 1)
        \o yep(or = 4 /\ oc # 7 /\ board[indexFromCoords(or, oc + 1)] = Ord("p"),
               or - 1, oc + 1)

\* The lower-case pawn with the adjacent-pawn capture given on rank 4.
PawnLowerMovesFromRank4(board, piece, or, oc) ==
    IF or = 8 THEN <<>>
    ELSE   yep(empty(board, or + 1, oc), or + 1, oc)
        \o yep(oc # 0 /\ opponentAt(board, piece, or + 1, oc - 1), or + 1, oc - 1)
        \o yep(oc # 7 /\ opponentAt(board, piece, or + 1, oc + 1), or + 1, oc + 1)
        \o yep(or = 2 /\ empty(board, or + 2, oc), or + 2, oc)
        \o yep(or = 4 /\ oc # 0 /\ board[indexFromCoords(or, oc - 1)] = Ord("P"),
               or + 1, oc - 1)
        \o yep(or = 4 /\ oc # 7 /\ board[indexFromCoords(or, oc + 1)] = Ord("P"),
               or + 1, oc + 1)

\* case 'p': the lower-case pawn, which moves towards rank 8.
PawnLowerMoves(board, piece, or, oc) ==
    IF or = 8 THEN <<>>
    ELSE   yep(empty(board, or + 1, oc), or + 1, oc)
        \o yep(oc # 0 /\ opponentAt(board, piece, or + 1, oc - 1), or + 1, oc - 1)
        \o yep(oc # 7 /\ opponentAt(board, piece, or + 1, oc + 1), or + 1, oc + 1)
        \o yep(or = 2 /\ empty(board, or + 2, oc), or + 2, oc)
        \o yep(or = 5 /\ oc # 0 /\ board[indexFromCoords(or, oc - 1)] = Ord("P"),
               or + 1, oc - 1)
        \o yep(or = 5 /\ oc # 7 /\ board[indexFromCoords(or, oc + 1)] = Ord("P"),
               or + 1, oc + 1)

\* case 'R', 'r' (and the first four loops of 'Q', 'q').
RookMoves(board, piece, or, oc) ==
       cruise(board, piece, or + 1, oc, 1, 0)
    \o cruise(board, piece, or - 1, oc, -1, 0)
    \o cruise(board, piece, or, oc + 1, 0, 1)
    \o cruise(board, piece, or, oc - 1, 0, -1)

\* case 'B', 'b' (and the last four loops of 'Q', 'q').
BishopMoves(board, piece, or, oc) ==
       cruise(board, piece, or + 1, oc + 1, 1, 1)
    \o cruise(board, piece, or + 1, oc - 1, 1, -1)
    \o cruise(board, piece, or - 1, oc + 1, -1, 1)
    \o cruise(board, piece, or - 1, oc - 1, -1, -1)

\* A hop that takes any cell on the board, whatever it holds.
hopOntoAnything(board, piece, r, c) ==
    yep(r >= 1 /\ r <= 8 /\ c >= 0 /\ c <= 7, r, c)

\* One if-statement of the knight and king cases.
hop(board, piece, r, c) ==
    yep(r >= 1 /\ r <= 8 /\ c >= 0 /\ c <= 7
        /\ (empty(board, r, c) \/ opponentAt(board, piece, r, c)), r, c)

\* case 'N', 'n'
KnightMoves(board, piece, tr, tc) ==
       hop(board, piece, tr + 2, tc + 1)
    \o hop(board, piece, tr + 2, tc - 1)
    \o hop(board, piece, tr - 2, tc + 1)
    \o hop(board, piece, tr - 2, tc - 1)
    \o hop(board, piece, tr + 1, tc + 2)
    \o hop(board, piece, tr + 1, tc - 2)
    \o hop(board, piece, tr - 1, tc + 2)
    \o hop(board, piece, tr - 1, tc - 2)

\* case 'K', 'k'
KingMoves(board, piece, tr, tc) ==
       hop(board, piece, tr - 1, tc - 1)
    \o hop(board, piece, tr - 1, tc)
    \o hop(board, piece, tr, tc - 1)
    \o hop(board, piece, tr + 1, tc + 1)
    \o hop(board, piece, tr + 1, tc)
    \o hop(board, piece, tr, tc + 1)
    \o hop(board, piece, tr + 1, tc - 1)
    \o hop(board, piece, tr - 1, tc + 1)

\* The switch of validMoves on the piece at (or, oc).
validMovesOf(board, piece, or, oc) ==
    IF piece = Ord("P") THEN PawnUpperMoves(board, piece, or, oc)
    ELSE IF piece = Ord("p") THEN PawnLowerMoves(board, piece, or, oc)
    ELSE IF piece \in {Ord("R"), Ord("r")} THEN RookMoves(board, piece, or, oc)
    ELSE IF piece \in {Ord("B"), Ord("b")} THEN BishopMoves(board, piece, or, oc)
    ELSE IF piece \in {Ord("N"), Ord("n")} THEN KnightMoves(board, piece, or, oc)
    ELSE IF piece \in {Ord("K"), Ord("k")} THEN KingMoves(board, piece, or, oc)
    ELSE IF piece \in {Ord("Q"), Ord("q")}
      THEN RookMoves(board, piece, or, oc) \o BishopMoves(board, piece, or, oc)
    ELSE <<>>

validMoves(board, pos) ==
    validMovesOf(board, board[pos], coordsFromIndex(pos).row, coordsFromIndex(pos).col)

\* Board.All: the indices holding the piece, in increasing order.
RECURSIVE AllFrom(_, _, _)
AllFrom(board, piece, i) ==
    IF i > 63 THEN <<>>
    ELSE (IF board[i] = piece THEN <<i>> ELSE <<>>) \o AllFrom(board, piece, i + 1)

All(board, piece) == AllFrom(board, piece, 0)

(***************************************************************************)
(* AlgebraicRx = ([PBNRQK])([a-h])?([1-8])?(x)?([a-h][1-8]), unanchored.   *)
(* FindStringSubmatch returns the leftmost match; at one start position    *)
(* each greedy "?" prefers to be present, in the order of RxOptions.       *)
(***************************************************************************)
IsPieceLetter(b) == b \in {Ord("P"), Ord("B"), Ord("N"), Ord("R"), Ord("Q"), Ord("K")}
IsFileLetter(b)  == b >= Ord("a") /\ b <= Ord("h")
IsRankDigit(b)   == b >= Ord("1") /\ b <= Ord("8")

\* The byte at (1-based) position i of s, or -1 past its end.
ByteAt(s, i) == IF i >= 1 /\ i <= Len(s) THEN s[i] ELSE -1

RxOptions ==
    << <<1, 1, 1>>, <<1, 1, 0>>, <<1, 0, 1>>, <<1, 0, 0>>,
       <<0, 1, 1>>, <<0, 1, 0>>, <<0, 0, 1>>, <<0, 0, 0>> >>

\* Whether the expression matches at position i with the three optional
\* groups present (1) or absent (0) as opt says.
RxMatchesAt(s, i, opt) ==
    /\ IsPieceLetter(ByteAt(s, i))
    /\ opt[1] = 1 => IsFileLetter(ByteAt(s, i + 1))
    /\ opt[2] = 1 => IsRankDigit(ByteAt(s, i + 1 + opt[1]))
    /\ opt[3] = 1 => ByteAt(s, i + 1 + opt[1] + opt[2]) = Ord("x")
    /\ IsFileLetter(ByteAt(s, i + 1 + opt[1] + opt[2] + opt[3]))
    /\ IsRankDigit(ByteAt(s, i + 2 + opt[1] + opt[2] + opt[3]))

NoMatch == [ok |-> FALSE]

\* The groups of the match at position i with the optional groups as opt
\* says: groups 1, 2, 3 and 5.
RxGroups(s, i, opt) ==
    [ok     |-> TRUE,
     piece  |-> s[i],
     srccol |-> IF opt[1] = 1 THEN <<s[i + 1]>> ELSE <<>>,
     srcrow |-> IF opt[2] = 1 THEN <<s[i + 1 + opt[1]]>> ELSE <<>>,
     dst    |-> <<s[i + 1 + opt[1] + opt[2] + opt[3]],
                  s[i + 2 + opt[1] + opt[2] + opt[3]]>>]

\* The preferred way the expression matches at position i.
RxFirstOption(s, i) ==
    RxOptions[CHOOSE k \in 1..8 :
                  /\ RxMatchesAt(s, i, RxOptions[k])
                  /\ \A l \in 1..(k - 1) : ~RxMatchesAt(s, i, RxOptions[l])]

\* The positions at which the expression matches.
RxStarts(s) == {i \in 1..Len(s) : \E k \in 1..8 : RxMatchesAt(s, i, RxOptions[k])}

Leftmost(at) == CHOOSE x \in at : \A y \in at : x <= y

\* AlgebraicRx.FindStringSubmatch
AlgebraicRxFind(s) ==
    IF RxStarts(s) = {} THEN NoMatch
    ELSE RxGroups(s, Leftmost(RxStarts(s)), RxFirstOption(s, Leftmost(RxStarts(s))))

\* AlgebraicRx.MatchString
AlgebraicRxMatch(s) == RxStarts(s) # {}

(***************************************************************************)
(* Board.Algebraic and Board.CoordsToAlgebraic                             *)
(***************************************************************************)
\* The first loop of Algebraic: the squares of All(piece) that pass the
\* source column and source row given in the notation.
AlgebraicCands(board, piece, srccol, srcrow) ==
    SelectSeq(All(board, piece),
              LAMBDA p :
                  /\ srccol # <<>> => (srccol[1] - Ord("a")) = coordsFromIndex(p).col
                  /\ srcrow # <<>> => (srcrow[1] - Ord("0")) = coordsFromIndex(p).row)

\* The valid moves of p that are the destination.
HitsOf(board, p, drow, dcol) ==
    SelectSeq(validMoves(board, p), LAMBDA m : m.row = drow /\ m.col = dcol)

\* The second loop of Algebraic: one entry for every (candidate, valid move)
\* pair whose move is the destination, in the order the loop meets them.
RECURSIVE AlgebraicHits(_, _, _, _)
AlgebraicHits(board, cands, drow, dcol) ==
    IF cands = <<>> THEN <<>>
    ELSE [i \in 1..Len(HitsOf(board, Head(cands), drow, dcol)) |-> Head(cands)]
         \o AlgebraicHits(board, Tail(cands), drow, dcol)

\* A result that takes the first hit when there are several.
AlgebraicResultFirstHit(hits, dsts) ==
    IF Len(hits) = 0 THEN [src |-> <<>>, dst |-> <<>>, err |-> "no matching move"]
    ELSE [src |-> <<Ord("A") + coordsFromIndex(hits[1]).col,
                    Ord("0") + coordsFromIndex(hits[1]).row>>,
          dst |-> dsts,
          err |-> NoErr]

\* What the second loop and the end of Algebraic return: an error at the
\* second hit or without a hit, else the coordinate of the only hit.
AlgebraicResult(hits, dsts) ==
    IF Len(hits) > 1 THEN [src |-> <<>>, dst |-> <<>>, err |-> "ambiguous move"]
    ELSE IF Len(hits) = 0 THEN [src |-> <<>>, dst |-> <<>>, err |-> "no matching move"]
    ELSE [src |-> <<Ord("A") + coordsFromIndex(hits[1]).col,
                    Ord("0") + coordsFromIndex(hits[1]).row>>,
          dst |-> dsts,
          err |-> NoErr]

\* Algebraic from the disambiguation on: piece is the piece looked for and
\* dst the index of the destination.
AlgebraicFind(board, piece, matches, dst) ==
    AlgebraicResult(
        AlgebraicHits(board,
                      AlgebraicCands(board, piece, matches.srccol, matches.srcrow),
                      coordsFromIndex(dst).row, coordsFromIndex(dst).col),
        matches.dst)

\* Algebraic after the expression was applied to the notation.
AlgebraicParsed(board, matches, isWhite) ==
    IF ~matches.ok THEN [src |-> <<>>, dst |-> <<>>, err |-> "invalid notation"]
    ELSE AlgebraicFind(board,
                       IF isWhite THEN matches.piece + 32 ELSE matches.piece,
                       matches, Position(matches.dst).p)

Algebraic(board, move, isWhite) ==
    IF move = Str(<<"O","-","O">>)
      THEN [src |-> IF isWhite THEN Str(<<"E","1">>) ELSE Str(<<"E","8">>),
            dst |-> IF isWhite THEN Str(<<"G","1">>) ELSE Str(<<"G","8">>),
            err |-> NoErr]
    ELSE IF move = Str(<<"O","-","O","-","O">>)
      THEN [src |-> IF isWhite THEN Str(<<"E","1">>) ELSE Str(<<"E","8">>),
            dst |-> IF isWhite THEN Str(<<"C","1">>) ELSE Str(<<"C","8">>),
            err |-> NoErr]
    ELSE AlgebraicParsed(board, AlgebraicRxFind(move), isWhite)

\* The candidate notations with the destination as it was given.
AlgebraicTriesAsGiven(piece, x, cs, r, dsts) ==
    << <<piece>> \o x \o dsts,
       <<piece, cs>> \o x \o dsts,
       <<piece, cs, Ord("0") + r>> \o x \o dsts >>

\* The three candidate notations of CoordsToAlgebraic, most general first:
\* piece is the upper-cased piece, x the capture mark, cs and r the file
\* letter and the rank of the source.
AlgebraicTries(piece, x, cs, r, dsts) ==
    << <<piece>> \o x \o ToLower(dsts),
       <<piece, cs>> \o x \o ToLower(dsts),
       <<piece, cs, Ord("0") + r>> \o x \o ToLower(dsts) >>

\* The first candidate that Algebraic accepts.
FirstAccepted(board, try, white) ==
    IF Algebraic(board, try[1], white).err = NoErr THEN [alg |-> try[1], err |-> NoErr]
    ELSE IF Algebraic(board, try[2], white).err = NoErr THEN [alg |-> try[2], err |-> NoErr]
    ELSE IF Algebraic(board, try[3], white).err = NoErr THEN [alg |-> try[3], err |-> NoErr]
    ELSE [alg |-> <<>>, err |-> "can't find a valid move"]

\* CoordsToAlgebraic with the indices src and dst of the coordinates.
CoordsToAlgebraicAt(board, src, dst, dsts) ==
    IF board[src] = EmptyCell THEN [alg |-> <<>>, err |-> "no piece at"]
    ELSE FirstAccepted(
             board,
             AlgebraicTries(IF board[src] >= Ord("a") THEN board[src] - 32 ELSE board[src],
                            IF board[dst] # EmptyCell THEN <<Ord("x")>> ELSE <<>>,
                            Ord("a") + coordsFromIndex(src).col,
                            coordsFromIndex(src).row,
                            dsts),
             board[src] >= Ord("a"))

CoordsToAlgebraic(board, srcs, dsts) ==
    IF Position(srcs).err # NoErr THEN [alg |-> <<>>, err |-> Position(srcs).err]
    ELSE IF Position(dsts).err # NoErr THEN [alg |-> <<>>, err |-> Position(dsts).err]
    ELSE CoordsToAlgebraicAt(board, Position(srcs).p, Position(dsts).p, dsts)

(***************************************************************************)
(* The bot: Game and the cases of Context.Incoming                         *)
(***************************************************************************)
\* The inputs the messages are drawn from.
Channels == {"chess"}

\* The channels of the specification with two sessions.
TwoChannels == {"chess", "lobby"}

\* The coordinates and the move texts of that specification.
KnockOutCoords == {Str(<<"e","7">>)}
ChannelMoveTexts == {Str(<<"E","7"," ","E","5">>)}
Users    == {"alice", "bob"}
Colors   == {"white", "black"}

\* Who claims which side: alice either side (so also both), bob black.
ClaimPairs == {<<"alice", "white">>, <<"alice", "black">>, <<"bob", "black">>}

\* Message texts of the move case: a coordinate move of the pawn on E7 (its
\* source is empty once it was played), a coordinate move of the rook on A1
\* over its own pawn (a move no notation describes), and the notation of a
\* move of the knight on G1.
MoveTexts ==
    { Str(<<"E","7"," ","E","5">>),
      Str(<<"a","1","a","5">>),
      Str(<<"N","f","3">>) }

\* The bounds of the model: the length of the move history and the last
\* reading of the wall clock.
MaxMoves == 2
MaxTime  == 2

\* &Game{Board: chess.StartingBoard.Normalize()}: every other field has
\* Go's zero value (the zero time.Time is written 0; the clock starts at 1).
NewGame ==
    [ Board        |-> StartingBoard,
      Black        |-> "",
      White        |-> "",
      PlayingWhite |-> FALSE,
      Winner       |-> "",
      BlackOk      |-> FALSE,
      WhiteOk      |-> FALSE,
      TickFrom     |-> 0,
      WhiteElapsed |-> 0,
      BlackElapsed |-> 0,
      Allowed      |-> FALSE,
      Moves        |-> <<>>,
      Previous     |-> <<>> ]

\* time.Since(t)
Since(t) == now - t

\* The pattern ([A-Ha-h][1-8])\s?([A-Ha-h][1-8]) under (?i), unanchored:
\* the leftmost match, the optional space preferred present.
IsCoordAt(s, i) ==
    /\ UpperByte(ByteAt(s, i)) >= Ord("A")
    /\ UpperByte(ByteAt(s, i)) <= Ord("H")
    /\ IsRankDigit(ByteAt(s, i + 1))

CoordRxMatchesAt(s, i, sp) ==
    /\ IsCoordAt(s, i)
    /\ sp = 1 => IsSpace(ByteAt(s, i + 2))
    /\ IsCoordAt(s, i + 2 + sp)

\* The positions at which the pattern matches.
CoordRxStarts(s) ==
    {i \in 1..Len(s) : \E sp \in {0, 1} : CoordRxMatchesAt(s, i, sp)}

\* Groups 1 and 2 of the match at position i, with (sp = 1) or without the
\* space.
CoordRxGroups(s, i, sp) ==
    [ok |-> TRUE, src |-> <<s[i], s[i + 1]>>, dst |-> <<s[i + 2 + sp], s[i + 3 + sp]>>]

\* matches(pattern, text)
CoordRxFind(s) ==
    IF CoordRxStarts(s) = {} THEN NoMatch
    ELSE CoordRxGroups(s, Leftmost(CoordRxStarts(s)),
                       IF CoordRxMatchesAt(s, Leftmost(CoordRxStarts(s)), 1) THEN 1 ELSE 0)

\* The guard of the move case.
IsMoveText(text) == CoordRxStarts(text) # {} \/ AlgebraicRxMatch(text)

\* A claim that gives up the other side when the user holds it.
ClaimSideResultExclusive(game, user, color) ==
    IF color = "black"
      THEN [ game  |-> [game EXCEPT !.Black = user,
                                    !.White = IF @ = user THEN "" ELSE @],
             reply |-> "ClaimedBlack" ]
      ELSE [ game  |-> [game EXCEPT !.White = user,
                                    !.Black = IF @ = user THEN "" ELSE @],
             reply |-> "ClaimedWhite" ]

\* case "claim.*black" / "claim.*white"
ClaimSideResult(game, user, color) ==
    IF color = "black"
      THEN [game |-> [game EXCEPT !.Black = user], reply |-> "ClaimedBlack"]
      ELSE [game |-> [game EXCEPT !.White = user], reply |-> "ClaimedWhite"]

\* The first two if-statements of the start case: the user's sides are ready.
Ready(game, user) ==
    [game EXCEPT !.WhiteOk = @ \/ user = game.White,
                 !.BlackOk = @ \/ user = game.Black]

\* A start case that starts the game as soon as one side is ready.
StartIfEitherReady(game) ==
    IF ~game.WhiteOk /\ ~game.BlackOk THEN [game |-> game, reply |-> "BothMustStart"]
    ELSE [ game  |-> [game EXCEPT !.PlayingWhite = TRUE, !.TickFrom = now],
           reply |-> "Started" ]

\* A start case that starts a game once: a game whose clock was started is
\* left as it is.
StartIfReadyOnce(game) ==
    IF ~game.WhiteOk /\ ~game.BlackOk THEN [game |-> game, reply |-> "BothMustStart"]
    ELSE IF ~game.WhiteOk THEN [game |-> game, reply |-> "WhiteMustStart"]
    ELSE IF ~game.BlackOk THEN [game |-> game, reply |-> "BlackMustStart"]
    ELSE IF game.TickFrom # 0 THEN [game |-> game, reply |-> "Started"]
    ELSE [ game  |-> [game EXCEPT !.PlayingWhite = TRUE, !.TickFrom = now],
           reply |-> "Started" ]

\* The rest of the start case.
StartIfReady(game) ==
    IF ~game.WhiteOk /\ ~game.BlackOk THEN [game |-> game, reply |-> "BothMustStart"]
    ELSE IF ~game.WhiteOk THEN [game |-> game, reply |-> "WhiteMustStart"]
    ELSE IF ~game.BlackOk THEN [game |-> game, reply |-> "BlackMustStart"]
    ELSE [ game  |-> [game EXCEPT !.PlayingWhite = TRUE, !.TickFrom = now],
           reply |-> "Started" ]

\* case "start"
StartResult(game, user) == StartIfReady(Ready(game, user))

\* The coordinates Algebraic returned, or the branch that reports its error.
AlgebraicCoords(r) ==
    IF r.err # NoErr THEN [reply |-> "CantUnderstand", start |-> <<>>, end |-> <<>>]
    ELSE [reply |-> "ok", start |-> r.src, end |-> r.dst]

\* The coordinates of a match of the coordinate pattern, upper-cased.
ToxCoords(tox) == [reply |-> "ok", start |-> ToUpper(tox.src), end |-> ToUpper(tox.dst)]

\* The move case up to the move closure: the source and destination named
\* by the text, or the branch by which the handler returns before that.
MoveCoords(game, user, text) ==
    IF AlgebraicRxMatch(text)
      THEN IF ~(game.White = user /\ game.PlayingWhite) /\ game.Black # user
             THEN [reply |-> "MoveIgnored", start |-> <<>>, end |-> <<>>]
             ELSE AlgebraicCoords(Algebraic(game.Board, text,
                                            game.White = user /\ game.PlayingWhite))
    ELSE ToxCoords(CoordRxFind(text))

\* fmt.Sprintf("%s %s", start, end)
CoordPair(start, end) == start \o <<Ord(" ")>> \o end

\* A closure that records the board but not the notation.
MoveClosureOnBoardsOnly(game, m, start, end, alg) ==
    IF m.err # NoErr THEN [game |-> game, err |-> m.err]
    ELSE [ game |-> [game EXCEPT !.Previous = Append(game.Previous, game.Board),
                                 !.Board    = m.board],
           err  |-> NoErr ]

\* A closure that records the board before it knows whether Board.Move fails.
MoveClosureOnEager(game, m, start, end, alg) ==
    IF m.err # NoErr
      THEN [ game |-> [game EXCEPT !.Previous = Append(game.Previous, game.Board)],
             err  |-> m.err ]
    ELSE [ game |-> [game EXCEPT
                       !.Previous = Append(game.Previous, game.Board),
                       !.Moves    = Append(game.Moves,
                                           IF alg # <<>> THEN alg
                                           ELSE CoordPair(start, end)),
                       !.Board    = m.board],
           err  |-> NoErr ]

\* The closure move := func() error { ... }, m being what Board.Move returned.
MoveClosureOn(game, m, start, end, alg) ==
    IF m.err # NoErr THEN [game |-> game, err |-> m.err]
    ELSE [ game |-> [game EXCEPT
                       !.Previous = Append(game.Previous, game.Board),
                       !.Moves    = Append(game.Moves,
                                           IF alg # <<>> THEN alg
                                           ELSE CoordPair(start, end)),
                       !.Board    = m.board],
           err  |-> NoErr ]

MoveClosure(game, start, end, alg) ==
    MoveClosureOn(game, Move(game.Board, start, end), start, end, alg)

\* The branch of the move case taken by white's claimant on white's turn, m
\* being what the closure returned and the Game as the closure left it (game
\* is a pointer: what the closure assigned stays assigned).
WhiteMovesOn(game, m) ==
    IF m.err # NoErr THEN [game |-> m.game, reply |-> "InvalidMove"]
    ELSE [ game  |-> [m.game EXCEPT
                        !.WhiteElapsed = game.WhiteElapsed + Since(game.TickFrom),
                        !.PlayingWhite = FALSE,
                        !.TickFrom     = now],
           reply |-> "WhiteMoved" ]

WhiteMoves(game, start, end, alg) ==
    WhiteMovesOn(game, MoveClosure(game, start, end, alg))

\* A black branch that charges the time to white's clock.
BlackMovesOnWhiteClock(game, m) ==
    IF m.err # NoErr THEN [game |-> m.game, reply |-> "InvalidMove"]
    ELSE [ game  |-> [m.game EXCEPT
                        !.WhiteElapsed = game.WhiteElapsed + Since(game.TickFrom),
                        !.TickFrom     = now,
                        !.PlayingWhite = TRUE],
           reply |-> "BlackMoved" ]

\* The branch of the move case taken by black's claimant on black's turn.
BlackMovesOn(game, m) ==
    IF m.err # NoErr THEN [game |-> m.game, reply |-> "InvalidMove"]
    ELSE [ game  |-> [m.game EXCEPT
                        !.BlackElapsed = game.BlackElapsed + Since(game.TickFrom),
                        !.TickFrom     = now,
                        !.PlayingWhite = TRUE],
           reply |-> "BlackMoved" ]

BlackMoves(game, start, end, alg) ==
    BlackMovesOn(game, MoveClosure(game, start, end, alg))

\* An if-chain that lets a player move whether or not it is their turn.
MoveByUserAnyTurn(game, user, start, end, alg) ==
    IF user # game.White /\ user # game.Black
      THEN [game |-> game, reply |-> "NotAPlayer"]
    ELSE IF user = game.White
      THEN WhiteMoves(game, start, end, alg)
    ELSE BlackMoves(game, start, end, alg)

\* An if-chain that refuses to move a piece of the side that is not on move.
MoveByUserOwnPiece(game, user, start, end, alg) ==
    IF user # game.White /\ user # game.Black
      THEN [game |-> game, reply |-> "NotAPlayer"]
    ELSE IF /\ Position(start).err = NoErr
            /\ game.Board[Position(start).p] # EmptyCell
            /\ (game.Board[Position(start).p] >= Ord("a")) # game.PlayingWhite
      THEN [game |-> game, reply |-> "InvalidMove"]
    ELSE IF user = game.White /\ game.PlayingWhite
      THEN WhiteMoves(game, start, end, alg)
    ELSE IF user = game.Black /\ ~game.PlayingWhite
      THEN BlackMoves(game, start, end, alg)
    ELSE [game |-> game, reply |-> "NotYourTurn"]

\* The if-chain at the end of the move case.
MoveByUser(game, user, start, end, alg) ==
    IF user # game.White /\ user # game.Black
      THEN [game |-> game, reply |-> "NotAPlayer"]
    ELSE IF user = game.White /\ game.PlayingWhite
      THEN WhiteMoves(game, start, end, alg)
    ELSE IF user = game.Black /\ ~game.PlayingWhite
      THEN BlackMoves(game, start, end, alg)
    ELSE [game |-> game, reply |-> "NotYourTurn"]

\* The move case once the text is read: c is what MoveCoords returned.
MoveWithCoords(game, user, c) ==
    IF c.reply # "ok" THEN [game |-> game, reply |-> c.reply]
    ELSE MoveByUser(game, user, c.start, c.end,
                    CoordsToAlgebraic(game.Board, c.start, c.end).alg)

\* case coordinate pair or AlgebraicRx
SubmitMoveResult(game, user, text) ==
    IF game.Winner # "" THEN [game |-> game, reply |-> "MoveGameOver"]
    ELSE MoveWithCoords(game, user, MoveCoords(game, user, text))

\* A take back that pops the two histories.
TakeBackResultPopping(game, user) ==
    IF game.Winner # "" THEN [game |-> game, reply |-> "TakeBackGameOver"]
    ELSE IF Len(game.Previous) < 1 THEN [game |-> game, reply |-> "NoHistory"]
    ELSE IF user = game.White /\ ~game.PlayingWhite
      THEN [ game  |-> [game EXCEPT
                          !.Board = game.Previous[Len(game.Previous)],
                          !.Previous = SubSeq(game.Previous, 1, Len(game.Previous) - 1),
                          !.Moves = SubSeq(game.Moves, 1, Len(game.Moves) - 1),
                          !.PlayingWhite = TRUE],
             reply |-> "WhiteTookBack" ]
    ELSE IF user = game.Black /\ game.PlayingWhite
      THEN [ game  |-> [game EXCEPT
                          !.Board = game.Previous[Len(game.Previous)],
                          !.Previous = SubSeq(game.Previous, 1, Len(game.Previous) - 1),
                          !.Moves = SubSeq(game.Moves, 1, Len(game.Moves) - 1),
                          !.PlayingWhite = FALSE],
             reply |-> "BlackTookBack" ]
    ELSE [game |-> game, reply |-> "CantTakeBack"]

\* case "take\s?back"
TakeBackResult(game, user) ==
    IF game.Winner # "" THEN [game |-> game, reply |-> "TakeBackGameOver"]
    ELSE IF Len(game.Previous) < 1 THEN [game |-> game, reply |-> "NoHistory"]
    ELSE IF user = game.White /\ ~game.PlayingWhite
      THEN [ game  |-> [game EXCEPT !.Board = game.Previous[Len(game.Previous)],
                                    !.PlayingWhite = TRUE],
             reply |-> "WhiteTookBack" ]
    ELSE IF user = game.Black /\ game.PlayingWhite
      THEN [ game  |-> [game EXCEPT !.Board = game.Previous[Len(game.Previous)],
                                    !.PlayingWhite = FALSE],
             reply |-> "BlackTookBack" ]
    ELSE [game |-> game, reply |-> "CantTakeBack"]

\* A resignation that makes the other side's claimant the winner, and that
\* only a player can make.
ResignResultByUser(game, user) ==
    [ game  |-> [game EXCEPT !.Winner = IF user = game.White THEN game.Black
                                        ELSE IF user = game.Black THEN game.White
                                        ELSE @],
      reply |-> "Resigned" ]

\* case "i\s+resign"
ResignResult(game, user) ==
    [ game  |-> [game EXCEPT !.Winner = IF game.PlayingWhite THEN game.Black
                                        ELSE game.White],
      reply |-> "Resigned" ]

\* A keep playing that also forgets the two histories.
ClearWinnerResultFresh(game) ==
    [ game  |-> [game EXCEPT !.Winner = "", !.Moves = <<>>, !.Previous = <<>>],
      reply |-> "KeepPlaying" ]

\* case "keep.*playing"
ClearWinnerResult(game) ==
    [game |-> [game EXCEPT !.Winner = ""], reply |-> "KeepPlaying"]

\* case "(black|white) win(s)?", for the texts "black wins" and "white wins"
DeclareWinnerResult(game, color) ==
    [ game  |-> [game EXCEPT !.Winner = IF color = "black" THEN game.Black
                                        ELSE game.White],
      reply |-> "DeclaredWinner" ]

\* case "knock.*out.*([A-Ha-h][1-9])": coord is group 1.  (With rank 9 the
\* error of Position is dropped and Replace indexes the board at -1, which
\* stops the program; the model draws coord from the ranks 1 to 8.)
KnockOutResult(game, coord) ==
    [ game  |-> [game EXCEPT
                   !.Board = Replace(game.Board, EmptyCell, Position(ToUpper(coord)).p)],
      reply |-> "KnockedOut" ]

\* A reset that keeps the players of the session it replaces.
ResetResultKeepingPlayers(game) ==
    [ game  |-> [NewGame EXCEPT !.Black = game.Black, !.White = game.White],
      reply |-> "Reset" ]

\* case "definitely.*reset"
ResetResult(game) == [game |-> NewGame, reply |-> "Reset"]

\* case "chess.*ok.*here" (TRUE) and case "no.*chess.*here" (FALSE)
SetAllowedResult(game, allowed) ==
    [ game  |-> [game EXCEPT !.Allowed = allowed],
      reply |-> IF allowed THEN "ChessOk" ELSE "NoChess" ]

(***************************************************************************)
(* Context.Incoming: the lazy creation of the channel's Game, the Allowed  *)
(* gate, then the case the text selects.                                   *)
(***************************************************************************)
\* game, ok := games[ctx.Channel]; a missing Game is created.
Lookup(ch) == IF ch \in DOMAIN games THEN games[ch] ELSE NewGame

\* The observer of a session.  lastMover: the side of the session's last
\* successful move.  sinceMove: the same, forgotten at a take back, a
\* resignation, a declared winner and a reset.  concluded: a winner was set
\* and neither "keep playing" nor a reset was applied since.
NewHist == [lastMover |-> "none", sinceMove |-> "none", concluded |-> FALSE]

HistOf(ch) == IF ch \in DOMAIN hist.of THEN hist.of[ch] ELSE NewHist

MoverOf(r) ==
    IF r = "WhiteMoved" THEN "white" ELSE IF r = "BlackMoved" THEN "black" ELSE "none"

HistAfter(h, r, game) ==
    IF r = "Gated" THEN h
    ELSE IF r = "Reset" THEN NewHist
    ELSE [ lastMover |-> IF MoverOf(r) # "none" THEN MoverOf(r) ELSE h.lastMover,
           sinceMove |-> IF MoverOf(r) # "none" THEN MoverOf(r)
                         ELSE IF r \in {"WhiteTookBack", "BlackTookBack",
                                        "Resigned", "DeclaredWinner"}
                           THEN "none"
                         ELSE h.sinceMove,
           concluded |-> IF r = "KeepPlaying" THEN FALSE
                         ELSE h.concluded \/ game.Winner # "" ]

\* The branches of the "board N" case that index game.Previous outside its
\* length.  The runtime panics on such an index; nothing between main and
\* Incoming recovers, so the process ends and handles no further message.
OutOfRangeReplies == {"IndexOutOfRange", "CantFetchThenIndexOutOfRange"}
Stopped == reply \in OutOfRangeReplies

\* The gate: chess is not allowed on the channel and the text is not one of
\* those that pass all the same (open).
Gated(ch, open) == ~Lookup(ch).Allowed /\ ~open

\* The state after a message on channel ch that left the channel's Game as
\* after and took the branch r.
Handled(ch, after, r) ==
    /\ ~Stopped
    /\ games' = (ch :> after) @@ games
    /\ reply' = r
    /\ hist'  = IF ~hist.on THEN hist
                ELSE [hist EXCEPT !.of = (ch :> HistAfter(HistOf(ch), r, after)) @@ @]
    /\ now'   = now
    /\ UNCHANGED <<main, call>>

\* One call of Incoming for a message on channel ch.  open says whether the
\* text passes the gate although chess is not allowed on the channel; res
\* is what the case the text selects makes of the channel's Game.  The
\* switch takes the first case whose pattern occurs in the text, so a text
\* that holds both a command and "help me chessbot" (or, for the cases
\* before it in the switch, "yo chessbot" or "chess ok here") passes the
\* gate and is handled as the command: every action below takes open as an
\* input.
Incoming(ch, open, res) ==
    Handled(ch,
            IF Gated(ch, open) THEN Lookup(ch) ELSE res.game,
            IF Gated(ch, open) THEN "Gated" ELSE res.reply)

ClaimSide(ch, user, color, open) ==
    /\ ch \in TwoChannels
    /\ Incoming(ch, open, ClaimSideResult(Lookup(ch), user, color))

Start(ch, user, open) ==
    /\ ch \in TwoChannels
    /\ Incoming(ch, open, StartResult(Lookup(ch), user))

SubmitMove(ch, user, text, open) ==
    /\ ch \in TwoChannels
    /\ IsMoveText(text)
    /\ Len(Lookup(ch).Moves) < MaxMoves
    /\ Incoming(ch, open, SubmitMoveResult(Lookup(ch), user, text))

TakeBack(ch, user, open) ==
    /\ ch \in TwoChannels
    /\ Incoming(ch, open, TakeBackResult(Lookup(ch), user))

Resign(ch, user, open) ==
    /\ ch \in TwoChannels
    /\ Incoming(ch, open, ResignResult(Lookup(ch), user))

DeclareWinner(ch, color, open) ==
    /\ ch \in TwoChannels
    /\ Incoming(ch, open, DeclareWinnerResult(Lookup(ch), color))

ClearWinner(ch, open) ==
    /\ ch \in TwoChannels
    /\ Incoming(ch, open, ClearWinnerResult(Lookup(ch)))

Reset(ch, open) ==
    /\ ch \in TwoChannels
    /\ Incoming(ch, open, ResetResult(Lookup(ch)))

SetAllowed(ch, allowed, open) ==
    /\ ch \in TwoChannels
    /\ Incoming(ch, allowed \/ open, SetAllowedResult(Lookup(ch), allowed))

\* "knock out" followed by a coordinate.
KnockOut(ch, coord, open) ==
    /\ ch \in TwoChannels
    /\ Incoming(ch, open, KnockOutResult(Lookup(ch), coord))

\* A last group that takes the channel the text names.
MoveGameTargetNamed == "lobby"

\* Group 1 of "move.*game.*to.*#?(.*?)" in a text the case's pattern
\* matches: the last group is lazy and nothing follows it, so it matches the
\* empty string wherever the text goes on.
MoveGameTarget == ""

\* "move game to #name": the Game goes to the channel whose identifier is
\* group 1 and this channel gets a new Game, when Channels has that key.
MoveGame(ch, open) ==
    /\ ch \in TwoChannels
    /\ IF Gated(ch, open) \/ MoveGameTarget \notin TwoChannels
         THEN Incoming(ch, open, [game |-> Lookup(ch), reply |-> "UnknownChannel"])
         ELSE /\ games' = (ch :> NewGame) @@ (MoveGameTarget :> Lookup(ch)) @@ games
              /\ reply' = "MovedGame"
              /\ UNCHANGED <<now, hist, main, call>>

\* The wall clock advances between two messages.
Tick ==
    /\ now < MaxTime
    /\ now' = now + 1
    /\ UNCHANGED <<games, reply, hist, main, call>>

\* main's loop before the first event: rtm.IncomingEvents is empty and no
\* call of Incoming is in progress.
NoHandlers == [inbox |-> <<>>, running |-> <<>>]

\* No function of the chess package was called on its own.
NoCall == [board |-> StartingBoard, fn |-> "none", in |-> <<>>, out |-> <<>>]

Init ==
    /\ games = <<>>
    /\ now   = 1
    /\ reply = "none"
    /\ hist  = [on |-> FALSE, of |-> <<>>]
    /\ main  = NoHandlers
    /\ call  = NoCall

\* The same, with the observer of the sessions' past switched on.
InitObserved ==
    /\ games = <<>>
    /\ now   = 1
    /\ reply = "none"
    /\ hist  = [on |-> TRUE, of |-> <<>>]
    /\ main  = NoHandlers
    /\ call  = NoCall

\* One channel and the nine commands of a session, each as the plain
\* command (no text holds a phrase that passes the gate besides its own).
Next ==
    \/ \E ch \in Channels, c \in ClaimPairs : ClaimSide(ch, c[1], c[2], FALSE)
    \/ \E ch \in Channels, user \in Users : Start(ch, user, FALSE)
    \/ \E ch \in Channels, user \in Users, text \in MoveTexts :
          SubmitMove(ch, user, text, FALSE)
    \/ \E ch \in Channels, user \in Users : TakeBack(ch, user, FALSE)
    \/ \E ch \in Channels, user \in Users : Resign(ch, user, FALSE)
    \/ \E ch \in Channels, color \in Colors : DeclareWinner(ch, color, FALSE)
    \/ \E ch \in Channels : ClearWinner(ch, FALSE)
    \/ \E ch \in Channels : Reset(ch, FALSE)
    \/ \E ch \in Channels, allowed \in BOOLEAN : SetAllowed(ch, allowed, FALSE)
    \/ Tick

Spec == Init /\ [][Next]_vars

SpecObserved == InitObserved /\ [][Next]_vars

\* Two channels, one user who claims black, one move text, and every case
\* of Incoming that assigns to the Game or to the map, "knock out" and "move
\* game" included; every command also comes in a text that passes the gate.
NextChannels ==
    \/ \E ch \in TwoChannels, open \in BOOLEAN : ClaimSide(ch, "alice", "black", open)
    \/ \E ch \in TwoChannels, open \in BOOLEAN : Start(ch, "alice", open)
    \/ \E ch \in TwoChannels, text \in ChannelMoveTexts, open \in BOOLEAN :
          SubmitMove(ch, "alice", text, open)
    \/ \E ch \in TwoChannels, open \in BOOLEAN : TakeBack(ch, "alice", open)
    \/ \E ch \in TwoChannels, open \in BOOLEAN : Resign(ch, "alice", open)
    \/ \E ch \in TwoChannels, color \in Colors, open \in BOOLEAN :
          DeclareWinner(ch, color, open)
    \/ \E ch \in TwoChannels, open \in BOOLEAN : ClearWinner(ch, open)
    \/ \E ch \in TwoChannels, open \in BOOLEAN : Reset(ch, open)
    \/ \E ch \in TwoChannels, allowed \in BOOLEAN, open \in BOOLEAN :
          SetAllowed(ch, allowed, open)
    \/ \E ch \in TwoChannels, coord \in KnockOutCoords, open \in BOOLEAN :
          KnockOut(ch, coord, open)
    \/ \E ch \in TwoChannels, open \in BOOLEAN : MoveGame(ch, open)

SpecChannels == Init /\ [][NextChannels]_vars

\* case "board.*([0-9]+)": the greedy ".*" leaves the last digit of the text
\* to the group, so which is one digit.  The comparison refuses only an
\* index above the length and does not return; game.Previous[which] is
\* evaluated in every branch (the history is indexed from 0 in the source,
\* from 1 here).
ShowPreviousResult(game, which) ==
    [ game  |-> game,
      reply |-> IF which > Len(game.Previous) THEN "CantFetchThenIndexOutOfRange"
                ELSE IF which >= Len(game.Previous) THEN "IndexOutOfRange"
                ELSE "PreviousBoard",
      which |-> which,
      drawn |-> IF which < Len(game.Previous) THEN game.Previous[which + 1] ELSE <<>> ]

ShowPrevious(ch, which, open) ==
    /\ ch \in TwoChannels
    /\ which \in 0..9
    /\ Incoming(ch, open, ShowPreviousResult(Lookup(ch), which))

\* The texts of the session with the history lookup: a move of the rook on
\* H1, the king's move from E1 to the castling destination G1, a move whose
\* source is its destination, and a move of the pawn on E7.
HistoryMoveTexts ==
    { Str(<<"H","1"," ","H","3">>),
      Str(<<"E","1"," ","G","1">>),
      Str(<<"E","2"," ","E","2">>),
      Str(<<"E","7"," ","E","5">>) }

\* The indices asked for: inside, at and above the lengths the history takes.
WhichInputs == 0..3

\* One channel where alice plays white and bob black: claims, starts, moves,
\* take backs and lookups of a previous board.
NextMoves ==
    \/ \E user \in Users :
          ClaimSide("chess", user, IF user = "alice" THEN "white" ELSE "black", FALSE)
    \/ \E user \in Users : Start("chess", user, FALSE)
    \/ \E user \in Users, text \in HistoryMoveTexts : SubmitMove("chess", user, text, FALSE)
    \/ \E user \in Users : TakeBack("chess", user, FALSE)
    \/ \E which \in WhichInputs : ShowPrevious("chess", which, FALSE)
    \/ \E allowed \in BOOLEAN : SetAllowed("chess", allowed, FALSE)

SpecMoves == Init /\ [][NextMoves]_vars

(***************************************************************************)
(* main: the loop that takes one event at a time from rtm.IncomingEvents   *)
(* and calls ctx.Incoming() for a message.  A call in progress is kept     *)
(* with its event and with the Game it read from the map when it began;    *)
(* the Game it leaves is computed from what it read.                       *)
(***************************************************************************)
\* The messages that arrive: alice's, on either channel.
LoopTexts == {"claim black", "E7 E5", "take back", "chess ok here"}

LoopEvents == [Channel : TwoChannels, Text : LoopTexts]

\* The bound of the model on the events that wait in rtm.IncomingEvents.
MaxInbox == 1

\* Incoming from the gate on, for the Game g the call read.
LoopCase(g, ev) ==
    IF ev.Text = "claim black" THEN ClaimSideResult(g, "alice", "black")
    ELSE IF ev.Text = "E7 E5"
      THEN SubmitMoveResult(g, "alice", Str(<<"E","7"," ","E","5">>))
    ELSE IF ev.Text = "take back" THEN TakeBackResult(g, "alice")
    ELSE SetAllowedResult(g, TRUE)

LoopResult(g, ev) ==
    IF ~g.Allowed /\ ev.Text # "chess ok here"
      THEN [game |-> g, reply |-> "Gated"]
      ELSE LoopCase(g, ev)

\* rtm.ManageConnection sends an event on rtm.IncomingEvents.
Arrive(ev) ==
    /\ ev \in LoopEvents
    /\ Len(main.inbox) < MaxInbox
    /\ ev.Text = "E7 E5"
          => Len(Lookup(ev.Channel).Moves) + Len(main.inbox) + Len(main.running) < MaxMoves
    /\ main' = [main EXCEPT !.inbox = Append(@, ev)]
    /\ UNCHANGED <<games, now, reply, hist, call>>

\* A loop that starts the call for the next event while one is in progress
\* (go ctx.Incoming()).
CanReceiveWhileRunning(m) == Len(m.running) <= 1

\* The select of main's loop is reached again when ctx.Incoming() returned:
\* the call is made by the loop itself.
CanReceive(m) == m.running = <<>>

\* case msg := <-rtm.IncomingEvents, up to the call's read of the map (a
\* missing Game is created).
Receive ==
    /\ CanReceive(main)
    /\ main.inbox # <<>>
    /\ main' = [ inbox   |-> Tail(main.inbox),
                 running |-> Append(main.running,
                                    [ ev   |-> Head(main.inbox),
                                      read |-> Lookup(Head(main.inbox).Channel) ]) ]
    /\ games' = (Head(main.inbox).Channel :> Lookup(Head(main.inbox).Channel)) @@ games
    /\ UNCHANGED <<now, reply, hist, call>>

\* The i-th call in progress writes the Game and returns.
Return(i) ==
    /\ i \in 1..Len(main.running)
    /\ games' = (main.running[i].ev.Channel :>
                    LoopResult(main.running[i].read, main.running[i].ev).game) @@ games
    /\ reply' = LoopResult(main.running[i].read, main.running[i].ev).reply
    /\ main'  = [main EXCEPT !.running = SubSeq(@, 1, i - 1) \o SubSeq(@, i + 1, Len(@))]
    /\ UNCHANGED <<now, hist, call>>

NextLoop ==
    \/ \E ev \in LoopEvents : Arrive(ev)
    \/ Receive
    \/ \E i \in 1..2 : Return(i)
    \/ Tick

SpecLoop == Init /\ [][NextLoop]_vars

(***************************************************************************)
(* The functions of the chess package called on their own: a behaviour is  *)
(* one call on a Board, with its input and its result kept in call.        *)
(***************************************************************************)
\* A Board with both castlings open and a pawn of either side one step from
\* its last rank.
MiddleBoard ==
    Normalize(Str(<<"R","_","_","_","K","_","_","R","\n",
                    "p","_","P","P","P","P","P","P","\n",
                    "_","_","_","_","_","_","_","_","\n",
                    "_","_","_","_","_","_","_","_","\n",
                    "_","_","_","_","_","_","_","_","\n",
                    "_","_","_","_","_","_","_","_","\n",
                    "P","_","p","p","p","p","p","p","\n",
                    "r","_","_","_","k","_","_","r","\n">>))

\* The starting Board with F1 and G1 cleared.
CastlingBoard ==
    Replace(Replace(StartingBoard, EmptyCell, Position(Str(<<"F","1">>)).p),
            EmptyCell, Position(Str(<<"G","1">>)).p)

\* A Board in the middle of a game: pawns of either side on their home
\* rank with a piece right ahead, pawns next to pawns of the other side on
\* the ranks 4 and 5, two rooks and two knights of one side that reach the
\* same cells, and a rook, a bishop and a queen with pieces of both sides in
\* their way.
TangledBoard ==
    Normalize(Str(<<"_","N","_","_","K","N","_","_","\n",
                    "_","_","_","_","_","_","_","P","\n",
                    "_","_","_","B","_","_","_","b","\n",
                    "p","P","p","P","_","_","Q","_","\n",
                    "_","_","_","_","P","p","_","_","\n",
                    "R","_","_","_","_","_","_","_","\n",
                    "p","_","_","_","q","_","_","_","\n",
                    "r","_","_","_","_","_","_","r","\n">>))

\* A Board late in a game: a king in a corner and a knight, each with a
\* piece of the other side in reach, a king on E1 with no rook on the first
\* rank, and pawns on the ranks 5 and 4 next to a pawn of the other side
\* with a piece of their own side on the diagonal cell.
SparseBoard ==
    Normalize(Str(<<"_","_","_","_","_","_","n","K","\n",
                    "_","_","_","_","P","_","_","_","\n",
                    "_","q","_","_","_","_","_","_","\n",
                    "p","P","_","_","_","_","_","_","\n",
                    "_","_","_","_","_","_","P","p","\n",
                    "_","_","_","_","_","_","_","N","\n",
                    "_","_","_","_","_","_","_","_","\n",
                    "_","_","_","_","k","_","_","_","\n">>))

BoardInputs == {StartingBoard, MiddleBoard, CastlingBoard, TangledBoard, SparseBoard}

\* The 64 coordinates, upper case.
UpperCoords == {<<64 + f, 48 + r>> : f \in 1..8, r \in 1..8}

\* Two-byte strings given to Position and PieceAt: the files A to I and a to
\* i, "_" and "9", with the ranks 0 to 9, "A" and "h".
CoordInputs ==
    { <<f, r>> :
        f \in {Ord(UpperLetters[i]) : i \in 1..9} \cup {Ord(LowerLetters[i]) : i \in 1..9}
                \cup {Ord("_"), Ord("9")},
        r \in {Ord(Digits[i]) : i \in 1..10} \cup {Ord("A"), Ord("h")} }

\* The coordinates given to Move: every coordinate in upper case, two in
\* lower case and two that Position refuses.
MoveInputs ==
    UpperCoords \cup {Str(<<"e","2">>), Str(<<"e","7">>), Str(<<"I","1">>), Str(<<"A","9">>)}

\* The notations given to Algebraic: a piece letter, no source or the file c
\* or the rank 5 or both, and any destination; the two castlings; and a text
\* that is no notation.
NotationInputs ==
    { <<piece>> \o srccol \o srcrow \o <<Ord("a") + c, Ord("0") + r>> :
        piece \in {Ord("P"), Ord("B"), Ord("N"), Ord("R"), Ord("Q"), Ord("K")},
        srccol \in {<<>>, <<Ord("c")>>},
        srcrow \in {<<>>, <<Ord("5")>>},
        c \in 0..7, r \in 1..8 }
      \cup {Str(<<"O","-","O">>), Str(<<"O","-","O","-","O">>), Str(<<"e","4">>)}

\* A session on the Board: alice holds both sides, one move is recorded,
\* chess is allowed.
SessionOn(board) ==
    [NewGame EXCEPT !.Board = board, !.White = "alice", !.Black = "alice",
                    !.Allowed = TRUE, !.Moves = <<Str(<<"e","4">>)>>,
                    !.Previous = <<StartingBoard>>]

\* One call: fn applied to in gave out.
Called(fn, in, out) ==
    /\ call.fn = "none"
    /\ call' = [call EXCEPT !.fn = fn, !.in = in, !.out = out]
    /\ UNCHANGED <<games, now, reply, hist, main>>

CallNormalize ==
    /\ call.board = StartingBoard
    /\ Called("Normalize", RawStartingBoard, Normalize(RawStartingBoard))

CallPosition ==
    /\ call.fn = "none"
    /\ \E pos \in CoordInputs : Called("Position", pos, Position(pos))

CallPieceAt ==
    /\ call.fn = "none"
    /\ \E pos \in CoordInputs : Called("PieceAt", pos, PieceAt(call.board, pos))

CallReplace ==
    /\ call.fn = "none"
    /\ \E r \in {EmptyCell, Ord("q")}, i \in 0..63 :
          Called("Replace", <<r, i>>, Replace(call.board, r, i))

CallMove ==
    /\ call.fn = "none"
    /\ \E starts \in MoveInputs, stops \in MoveInputs :
          Called("Move", <<starts, stops>>, Move(call.board, starts, stops))

\* coordsFromIndex, and indexFromCoords of what it returns.
CallCoords ==
    /\ call.fn = "none"
    /\ \E pos \in 0..63 :
          Called("coordsFromIndex", pos,
                 [ row   |-> coordsFromIndex(pos).row,
                   col   |-> coordsFromIndex(pos).col,
                   index |-> indexFromCoords(coordsFromIndex(pos).row,
                                             coordsFromIndex(pos).col) ])

CallValidMoves ==
    /\ call.fn = "none"
    /\ \E pos \in 0..63 : Called("validMoves", pos, validMoves(call.board, pos))

CallAlgebraic ==
    /\ call.fn = "none"
    /\ \E move \in NotationInputs, isWhite \in BOOLEAN :
          Called("Algebraic", <<move, isWhite>>, Algebraic(call.board, move, isWhite))

CallCoordsToAlgebraic ==
    /\ call.fn = "none"
    /\ \E srcs \in UpperCoords, dsts \in UpperCoords :
          Called("CoordsToAlgebraic", <<srcs, dsts>>,
                 CoordsToAlgebraic(call.board, srcs, dsts))

\* The session with alice's message handled, for the cases of Incoming that
\* assign game.Board.
SessionAfter(game, text) ==
    IF text = "E7 E5"
      THEN SubmitMoveResult(game, "alice", Str(<<"E","7"," ","E","5">>))
    ELSE IF text = "a2a1"
      THEN SubmitMoveResult(game, "alice", Str(<<"a","2","a","1">>))
    ELSE IF text = "Nf6"
      THEN SubmitMoveResult(game, "alice", Str(<<"N","f","6">>))
    ELSE IF text = "E1 E1"
      THEN SubmitMoveResult(game, "alice", Str(<<"E","1"," ","E","1">>))
    ELSE IF text = "take back" THEN TakeBackResult(game, "alice")
    ELSE IF text = "knock out e7" THEN KnockOutResult(game, Str(<<"e","7">>))
    ELSE ResetResult(game)

CallIncoming ==
    /\ call.fn = "none"
    /\ \E text \in {"E7 E5", "a2a1", "Nf6", "E1 E1", "take back", "knock out e7",
                     "definitely reset"} :
          Called("Incoming", text, SessionAfter(SessionOn(call.board), text))

InitBoard ==
    /\ games = <<>>
    /\ now   = 1
    /\ reply = "none"
    /\ hist  = [on |-> FALSE, of |-> <<>>]
    /\ main  = NoHandlers
    /\ call  \in {[NoCall EXCEPT !.board = b] : b \in BoardInputs}

NextBoard ==
    \/ CallNormalize
    \/ CallPosition
    \/ CallPieceAt
    \/ CallReplace
    \/ CallMove
    \/ CallCoords
    \/ CallValidMoves
    \/ CallAlgebraic
    \/ CallCoordsToAlgebraic
    \/ CallIncoming

SpecBoard == InitBoard /\ [][NextBoard]_vars

(***************************************************************************)
(* Properties of the session.  A message that the Allowed gate stops is    *)
(* not an operation of the session: an operation is applied when Incoming  *)
(* reaches its case, which on a channel where chess is not allowed takes a *)
(* text that passes the gate (open).                                       *)
(***************************************************************************)
\* The answers by which the move case and the take back case end.
MoveReplies ==
    {"MoveGameOver", "MoveIgnored", "CantUnderstand", "NotAPlayer",
     "NotYourTurn", "InvalidMove", "WhiteMoved", "BlackMoved"}

TakeBackReplies ==
    {"TakeBackGameOver", "NoHistory", "CantTakeBack", "WhiteTookBack", "BlackTookBack"}

StartReplies == {"BothMustStart", "WhiteMustStart", "BlackMustStart", "Started"}

\* This step is user's SubmitMove of text on channel ch, reaching the move case.
SubmitMoveApplied(ch, user, text) ==
    /\ now' = now
    /\ reply' \in MoveReplies
    /\ SubmitMove(ch, user, text, ~Lookup(ch).Allowed)

\* This step is user's TakeBack on channel ch, reaching the take back case.
TakeBackApplied(ch, user) ==
    /\ now' = now
    /\ reply' \in TakeBackReplies
    /\ TakeBack(ch, user, ~Lookup(ch).Allowed)

\* This step is user's Start on channel ch, reaching the start case.
StartApplied(ch, user) ==
    /\ now' = now
    /\ reply' \in StartReplies
    /\ Start(ch, user, ~Lookup(ch).Allowed)

IsPlayer(game, user) == user = game.White \/ user = game.Black

\* user is the claimant of the side on move.
OnMove(game, user) ==
    IF game.PlayingWhite THEN user = game.White ELSE user = game.Black

\* g and h differ at most in the fields named in the set except.
SameBut(g, h, except) ==
    \A f \in DOMAIN g \ except : g[f] = h[f]

\* C1: in every reachable state the move history and the board history of
\* every session have the same length.
C1_HistoriesSameLength ==
    \A ch \in DOMAIN games : Len(games[ch].Moves) = Len(games[ch].Previous)

\* C1's case: a session whose histories hold two moves, after a take back.
C1_Witness ==
    /\ reply \in {"WhiteTookBack", "BlackTookBack"}
    /\ \E ch \in DOMAIN games : Len(games[ch].Moves) = 2 /\ Len(games[ch].Previous) = 2

\* C2: from the moment a winner is set until ClearWinner or Reset is
\* applied, every SubmitMove is answered GameOver and leaves the session as
\* it was.
C2_RefusedUntilCleared ==
    [][\A ch \in Channels, user \in Users, text \in MoveTexts :
         (HistOf(ch).concluded /\ SubmitMoveApplied(ch, user, text))
            => (reply' = "MoveGameOver" /\ games'[ch] = Lookup(ch))]_vars

\* C3 as stated: a SubmitMove from a player who is not on move is answered
\* NotYourTurn and leaves Board, histories and turn flag as they were.
C3_OffTurnNotYourTurn ==
    [][\A ch \in Channels, user \in Users, text \in MoveTexts :
         ( /\ IsPlayer(Lookup(ch), user)
           /\ ~OnMove(Lookup(ch), user)
           /\ SubmitMoveApplied(ch, user, text) )
            => (reply' = "NotYourTurn" /\ games'[ch] = Lookup(ch))]_vars

\* C3, amended: a SubmitMove from a player who is not on move leaves the
\* whole session as it was; it is answered GameOver if a winner is set,
\* else NotYourTurn if the text is a coordinate pair, and if the text is
\* algebraic notation it is ignored without an answer (white's claimant) or
\* answered NotYourTurn or CantUnderstand (black's claimant).
C3_OffTurnRefused ==
    [][\A ch \in Channels, user \in Users, text \in MoveTexts :
         ( /\ IsPlayer(Lookup(ch), user)
           /\ ~OnMove(Lookup(ch), user)
           /\ SubmitMoveApplied(ch, user, text) )
            => /\ games'[ch] = Lookup(ch)
               /\ reply' = IF Lookup(ch).Winner # "" THEN "MoveGameOver"
                           ELSE IF ~AlgebraicRxMatch(text) THEN "NotYourTurn"
                           ELSE IF user # Lookup(ch).Black THEN "MoveIgnored"
                           ELSE IF Algebraic(Lookup(ch).Board, text, FALSE).err # NoErr
                             THEN "CantUnderstand"
                           ELSE "NotYourTurn"]_vars

\* C3's case: a player who is not on move was answered NotYourTurn, in a
\* session with a move made and no winner.
C3_Witness ==
    /\ reply = "NotYourTurn"
    /\ \E ch \in DOMAIN games :
          /\ games[ch].Winner = ""
          /\ Len(games[ch].Moves) = 1
          /\ games[ch].White # games[ch].Black

\* C4: two successful SubmitMoves of a session with no TakeBack, Resign,
\* DeclareWinner or Reset between them are made by opposite sides.
C4_TurnAlternates ==
    [][\A ch \in Channels, user \in Users, text \in MoveTexts :
         (SubmitMoveApplied(ch, user, text) /\ MoverOf(reply') # "none")
            => HistOf(ch).sinceMove # MoverOf(reply')]_vars

\* What a successful move from start to end leaves of the Game g, as h.
SuccessfulMoveEffect(g, h, start, end) ==
    /\ h.Previous = Append(g.Previous, g.Board)
    /\ Len(h.Moves) = Len(g.Moves) + 1
    /\ SubSeq(h.Moves, 1, Len(g.Moves)) = g.Moves
    /\ Move(g.Board, start, end).err = NoErr
    /\ h.Board = Move(g.Board, start, end).board
    /\ h.PlayingWhite = ~g.PlayingWhite
    /\ h.TickFrom = now
    /\ IF g.PlayingWhite
         THEN /\ h.WhiteElapsed = g.WhiteElapsed + (now - g.TickFrom)
              /\ h.BlackElapsed = g.BlackElapsed
         ELSE /\ h.BlackElapsed = g.BlackElapsed + (now - g.TickFrom)
              /\ h.WhiteElapsed = g.WhiteElapsed
    /\ SameBut(g, h, {"Previous", "Moves", "Board", "PlayingWhite", "TickFrom",
                      "WhiteElapsed", "BlackElapsed"})

\* C5: a successful SubmitMove appends the Board to the board history and
\* one entry to the move history, sets the Board to what Move returns,
\* flips the turn, adds the time since the last tick to the mover's clock
\* alone, resets the tick, and leaves players, readiness flags, winner and
\* allowed flag as they were.
C5_SuccessfulMove ==
    [][\A ch \in Channels, user \in Users, text \in MoveTexts :
         (SubmitMoveApplied(ch, user, text) /\ MoverOf(reply') # "none")
            => /\ MoverOf(reply') = IF Lookup(ch).PlayingWhite THEN "white" ELSE "black"
               /\ OnMove(Lookup(ch), user)
               /\ SuccessfulMoveEffect(Lookup(ch), games'[ch],
                                       MoveCoords(Lookup(ch), user, text).start,
                                       MoveCoords(Lookup(ch), user, text).end)]_vars

\* C5's case: black has just moved, as the second move of the session, some
\* time after the tick before.
C5_Witness ==
    /\ reply = "BlackMoved"
    /\ \E ch \in DOMAIN games :
          /\ Len(games[ch].Moves) = 2
          /\ games[ch].BlackElapsed > 0
          /\ games[ch].TickFrom = now

\* The move from user is refused or fails: a winner is set, user is no
\* player or not on move, the text names no move, or Board.Move fails.
MoveRefused(g, user, text) ==
    \/ g.Winner # ""
    \/ ~IsPlayer(g, user)
    \/ ~OnMove(g, user)
    \/ MoveCoords(g, user, text).reply # "ok"
    \/ Move(g.Board, MoveCoords(g, user, text).start,
            MoveCoords(g, user, text).end).err # NoErr

\* The take back from user is refused: a winner is set, the history is
\* empty, or user is not the claimant of the side that is not on move.
TakeBackRefused(g, user) ==
    \/ g.Winner # ""
    \/ Len(g.Previous) < 1
    \/ ~ \/ user = g.White /\ ~g.PlayingWhite
         \/ user = g.Black /\ g.PlayingWhite

\* C6: a refused or failing SubmitMove or TakeBack leaves every field of
\* the session as it was, and is answered as a refusal.
C6_RefusalChangesNothing ==
    [][\A ch \in Channels, user \in Users :
         /\ \A text \in MoveTexts :
              (SubmitMoveApplied(ch, user, text) /\ MoveRefused(Lookup(ch), user, text))
                 => (games'[ch] = Lookup(ch) /\ MoverOf(reply') = "none")
         /\ (TakeBackApplied(ch, user) /\ TakeBackRefused(Lookup(ch), user))
               => /\ games'[ch] = Lookup(ch)
                  /\ reply' \in {"TakeBackGameOver", "NoHistory", "CantTakeBack"}]_vars

\* C6's case: Board.Move failed on the move of the side on move, in a
\* session that has a history.
C6_Witness ==
    /\ reply = "InvalidMove"
    /\ \E ch \in DOMAIN games : Len(games[ch].Previous) = 1

\* C7: a TakeBack succeeds only for the claimant of the side not on move,
\* with a board history and no winner; it then sets the Board to the last
\* entry of the board history and reverses the turn, and changes nothing
\* else (nothing is popped, the clocks and the tick stay).  Any other
\* TakeBack changes nothing.
C7_TakeBack ==
    [][\A ch \in Channels, user \in Users :
         TakeBackApplied(ch, user)
            => IF games'[ch] # Lookup(ch) \/ reply' \in {"WhiteTookBack", "BlackTookBack"}
                 THEN /\ reply' \in {"WhiteTookBack", "BlackTookBack"}
                      /\ Lookup(ch).Winner = ""
                      /\ Len(Lookup(ch).Previous) >= 1
                      /\ user = IF Lookup(ch).PlayingWhite THEN Lookup(ch).Black
                                ELSE Lookup(ch).White
                      /\ games'[ch].Board = Lookup(ch).Previous[Len(Lookup(ch).Previous)]
                      /\ games'[ch].PlayingWhite = ~Lookup(ch).PlayingWhite
                      /\ SameBut(Lookup(ch), games'[ch], {"Board", "PlayingWhite"})
                 ELSE TakeBackRefused(Lookup(ch), user)]_vars

\* C7's case: black took back the second move of a session; the histories
\* still hold both moves and the Board is the one before the second move.
C7_Witness ==
    /\ reply = "BlackTookBack"
    /\ \E ch \in DOMAIN games :
          /\ Len(games[ch].Previous) = 2
          /\ Len(games[ch].Moves) = 2
          /\ games[ch].Board = games[ch].Previous[2]
          /\ ~games[ch].PlayingWhite

\* C8: in a session with two distinct players, the side whose TakeBack
\* succeeds is the side that made the session's last successful SubmitMove.
C8_TakeBackByLastMover ==
    [][\A ch \in Channels, user \in Users :
         ( /\ TakeBackApplied(ch, user)
           /\ reply' \in {"WhiteTookBack", "BlackTookBack"}
           /\ Lookup(ch).White # ""
           /\ Lookup(ch).Black # ""
           /\ Lookup(ch).White # Lookup(ch).Black )
            => HistOf(ch).lastMover = IF reply' = "WhiteTookBack" THEN "white"
                                      ELSE "black"]_vars

\* C9: Start(user) makes ready exactly the sides user claims; the turn is
\* set to white and the tick restarted by the call if and only if both
\* sides are ready after it; nothing else changes.
C9_Start ==
    [][\A ch \in Channels, user \in Users :
         StartApplied(ch, user)
            => /\ games'[ch].WhiteOk = (Lookup(ch).WhiteOk \/ user = Lookup(ch).White)
               /\ games'[ch].BlackOk = (Lookup(ch).BlackOk \/ user = Lookup(ch).Black)
               /\ IF games'[ch].WhiteOk /\ games'[ch].BlackOk
                    THEN games'[ch].PlayingWhite /\ games'[ch].TickFrom = now
                    ELSE /\ games'[ch].PlayingWhite = Lookup(ch).PlayingWhite
                         /\ games'[ch].TickFrom = Lookup(ch).TickFrom
               /\ SameBut(Lookup(ch), games'[ch],
                          {"WhiteOk", "BlackOk", "PlayingWhite", "TickFrom"})]_vars

\* C9's case: a Start after which one side only is ready, the turn and the
\* tick being as the session was created with.
C9_Witness ==
    /\ reply = "BlackMustStart"
    /\ \E ch \in DOMAIN games :
          /\ games[ch].WhiteOk
          /\ ~games[ch].BlackOk
          /\ ~games[ch].PlayingWhite
          /\ games[ch].TickFrom = 0

\* C10: no SubmitMove succeeds in a session (its histories stay empty)
\* until both readiness flags are true.
C10_NoMoveBeforeStart ==
    \A ch \in DOMAIN games :
        Len(games[ch].Moves) > 0 => (games[ch].WhiteOk /\ games[ch].BlackOk)

\* C11: after a Resign and after a DeclareWinner the session has a winner,
\* whatever its state was, and a SubmitMove that follows is answered
\* GameOver.
C11_WinnerSetUnconditionally ==
    [][\A ch \in Channels :
         ( /\ now' = now
           /\ reply' \in {"Resigned", "DeclaredWinner"}
           /\ \/ \E user \in Users : Resign(ch, user, ~Lookup(ch).Allowed)
              \/ \E color \in Colors : DeclareWinner(ch, color, ~Lookup(ch).Allowed) )
            => /\ games'[ch].Winner # ""
               /\ \A user \in Users, text \in MoveTexts :
                    SubmitMoveResult(games'[ch], user, text).reply = "MoveGameOver"]_vars

\* This step is a ClearWinner on channel ch, reaching the keep playing case.
ClearWinnerApplied(ch) ==
    /\ now' = now
    /\ reply' = "KeepPlaying"
    /\ ClearWinner(ch, ~Lookup(ch).Allowed)

\* C12: ClearWinner clears the winner and leaves every other field of the
\* session as it was; where a winner was set (and the move history is below
\* the model's bound), a SubmitMove from the claimant of the side on move
\* that names a move Board.Move can make is carried out again afterwards.
C12_ClearWinner ==
    [][\A ch \in Channels :
         ClearWinnerApplied(ch)
            => /\ games'[ch].Winner = ""
               /\ SameBut(Lookup(ch), games'[ch], {"Winner"})
               /\ (Lookup(ch).Winner # "" /\ Len(Lookup(ch).Moves) < MaxMoves)
                    => \A user \in Users, text \in MoveTexts :
                         ~MoveRefused(games'[ch], user, text)
                            => MoverOf(SubmitMoveResult(games'[ch], user, text).reply)
                                  # "none"]_vars

\* C12's case: the winner was cleared in a session one move into the game,
\* and the side on move has a claimant.
C12_Witness ==
    /\ reply = "KeepPlaying"
    /\ \E ch \in DOMAIN games :
          /\ games[ch].Winner = ""
          /\ Len(games[ch].Moves) = 1
          /\ Len(games[ch].Previous) = 1
          /\ \E user \in Users : OnMove(games[ch], user)

\* This step is a Reset on channel ch, reaching the definitely reset case.
ResetApplied(ch) ==
    /\ now' = now
    /\ reply' = "Reset"
    /\ Reset(ch, ~Lookup(ch).Allowed)

\* C13: a Reset leaves the channel with a session whose Board is the
\* starting Board, whose move and board histories are empty and whose
\* players, readiness flags, turn flag, winner and clocks are cleared; the
\* sessions of the other channels are as they were.
C13_Reset ==
    [][\A ch \in TwoChannels :
         ResetApplied(ch)
            => /\ ch \in DOMAIN games'
               /\ games'[ch].Board = StartingBoard
               /\ games'[ch].Moves = <<>>
               /\ games'[ch].Previous = <<>>
               /\ games'[ch].White = ""
               /\ games'[ch].Black = ""
               /\ ~games'[ch].WhiteOk
               /\ ~games'[ch].BlackOk
               /\ ~games'[ch].PlayingWhite
               /\ games'[ch].Winner = ""
               /\ games'[ch].TickFrom = 0
               /\ games'[ch].WhiteElapsed = 0
               /\ games'[ch].BlackElapsed = 0
               /\ \A other \in TwoChannels \ {ch} :
                    /\ other \in DOMAIN games' <=> other \in DOMAIN games
                    /\ other \in DOMAIN games => games'[other] = games[other]]_vars

\* C13's case: a channel was reset while the other channel's session has a
\* claimed side and is one move into its game.
C13_Witness ==
    /\ reply = "Reset"
    /\ \E ch \in DOMAIN games, other \in DOMAIN games :
          /\ other # ch
          /\ games[ch].Board = StartingBoard
          /\ games[ch].Black = ""
          /\ games[other].Black # ""
          /\ Len(games[other].Moves) = 1

\* The answers of the cases that change the Board of a session according to
\* section 4.4: a successful SubmitMove, a successful TakeBack and a Reset.
BoardChangingReplies ==
    {"WhiteMoved", "BlackMoved", "WhiteTookBack", "BlackTookBack", "Reset"}

\* The channel's Game after the step, as Lookup reads it before the step.
LookupAfter(ch) == IF ch \in DOMAIN games' THEN games'[ch] ELSE NewGame

GatedOperationReplies ==
    MoveReplies \cup TakeBackReplies \cup StartReplies
       \cup {"ClaimedBlack", "ClaimedWhite", "Resigned", "DeclaredWinner",
              "KeepPlaying", "Reset"}

\* C15: while Allowed is false in a channel's session, no ClaimSide, Start,
\* SubmitMove, TakeBack, Resign, DeclareWinner, ClearWinner or Reset changes
\* that session; and a SetAllowed changes at most the Allowed field.
C15_GateClosesEveryOperation ==
    [][\A ch \in TwoChannels :
         /\ (~Lookup(ch).Allowed /\ LookupAfter(ch) # Lookup(ch))
               => reply' \notin GatedOperationReplies
         /\ reply' \in {"ChessOk", "NoChess"}
               => SameBut(Lookup(ch), LookupAfter(ch), {"Allowed"})]_vars

\* C16: at most one call of Incoming is in progress at any time, and the
\* Game a call in progress has read is the Game the map holds for its
\* channel: no other call wrote between a call's read and its write, on
\* this or another channel, so no update of a session is lost.
C16_OneEventAtATime ==
    /\ Len(main.running) <= 1
    /\ \A i \in 1..Len(main.running) :
          /\ main.running[i].ev.Channel \in DOMAIN games
          /\ main.running[i].read = games[main.running[i].ev.Channel]

\* C16's case: a call is in progress on a session one move into its game,
\* with one of its sides claimed, while the next event for the same channel
\* waits.
C16_Witness ==
    /\ Len(main.running) = 1
    /\ Len(main.inbox) = 1
    /\ main.inbox[1].Channel = main.running[1].ev.Channel
    /\ main.running[1].ev.Text = "take back"
    /\ Len(main.running[1].read.Moves) = 1
    /\ \E ch \in DOMAIN games \ {main.running[1].ev.Channel} : games[ch].Black # ""

(***************************************************************************)
(* Properties of the Board's functions, over the calls of SpecBoard.       *)
(***************************************************************************)
\* A Board of 64 cells, indexed from 0.
IsBoard(b) == DOMAIN b = 0..63

\* The coordinate, in upper case, of the row (1 to 8) and column (0 to 7).
CoordAt(row, col) == <<Ord("A") + col, Ord("0") + row>>

\* C17: a Board has exactly 64 cells: the normalized starting Board, the
\* result of Replace, the result of Move (plain, promotion, castling, and
\* refused) and the Board and the board history of a session after a move,
\* a take back, a knock out and a reset.
C17_BoardHas64Cells ==
    /\ IsBoard(call.board)
    /\ call.fn \in {"Normalize", "Replace"} => IsBoard(call.out)
    /\ call.fn = "Move" => IsBoard(call.out.board)
    /\ call.fn = "Incoming"
          => /\ IsBoard(call.out.game.Board)
             /\ \A i \in 1..Len(call.out.game.Previous) :
                   IsBoard(call.out.game.Previous[i])

\* C17's case: Move castled on the king's side, the rook now on F1.
C17_Witness ==
    /\ call.fn = "Move"
    /\ call.board = MiddleBoard
    /\ call.in = <<Str(<<"E","1">>), Str(<<"G","1">>)>>
    /\ call.out.err = NoErr
    /\ call.out.board[Position(Str(<<"F","1">>)).p] = Ord("r")
    /\ call.out.board[Position(Str(<<"H","1">>)).p] = EmptyCell

\* C18: where Position succeeds its result is (8 - rank) * 8 + (file - A),
\* an index in 0..63 that no other coordinate has; every index in 0..63 is
\* the Position of exactly one coordinate; and coordsFromIndex gives the
\* rank and file of an index, indexFromCoords the index again.
C18_PositionBijective ==
    /\ (call.fn = "Position" /\ call.out.err = NoErr)
          => /\ call.out.p \in 0..63
             /\ call.out.p = ((8 - (call.in[2] - Ord("0"))) * 8)
                                 + (UpperByte(call.in[1]) - Ord("A"))
             /\ coordsFromIndex(call.out.p)
                   = [row |-> call.in[2] - Ord("0"),
                      col |-> UpperByte(call.in[1]) - Ord("A")]
             /\ \A other \in UpperCoords :
                   Position(other).p = call.out.p => other = ToUpper(call.in)
    /\ call.fn = "coordsFromIndex"
          => /\ call.out.index = call.in
             /\ call.out.row \in 1..8
             /\ call.out.col \in 0..7
             /\ Position(CoordAt(call.out.row, call.out.col))
                   = [p |-> call.in, err |-> NoErr]
             /\ Cardinality({c \in UpperCoords : Position(c).p = call.in}) = 1

\* C18's case: Position of "h1", the last index.
C18_Witness ==
    /\ call.fn = "Position"
    /\ call.in = Str(<<"h","1">>)
    /\ call.out = [p |-> 63, err |-> NoErr]

\* C19: Position fails, with a bad column or a bad row, exactly when the
\* file is not one of A to H or a to h or the rank is not one of 1 to 8;
\* PieceAt gives the cell at Position of the coordinate, or Position's error
\* and no cell.
C19_PositionErrors ==
    /\ call.fn = "Position"
          => /\ call.out.err \in {NoErr, "bad column", "bad row"}
             /\ call.out.err # NoErr
                   <=> \/ ~(\/ call.in[1] \in Ord("A")..Ord("H")
                            \/ call.in[1] \in Ord("a")..Ord("h"))
                       \/ call.in[2] \notin Ord("1")..Ord("8")
    /\ call.fn = "PieceAt"
          => IF Position(call.in).err = NoErr
               THEN call.out =
                      [ piece |-> <<call.board[((8 - (call.in[2] - Ord("0"))) * 8)
                                                 + (UpperByte(call.in[1]) - Ord("A"))]>>,
                        err   |-> NoErr ]
               ELSE call.out = [piece |-> <<>>, err |-> Position(call.in).err]

\* C19's case: PieceAt of "a9" passes on the bad row and gives no cell.
C19_Witness ==
    /\ call.fn = "PieceAt"
    /\ call.in = Str(<<"a","9">>)
    /\ call.out = [piece |-> <<>>, err |-> "bad row"]

\* C20: for two coordinates that Position takes, Move fails exactly when the
\* source cell is empty, and then says so and returns the Board it was given;
\* it succeeds otherwise, whatever validMoves says of the destination; and on
\* the starting Board it succeeds for every destination validMoves lists.
C20_MoveFailsIffSourceEmpty ==
    /\ ( /\ call.fn = "Move"
         /\ Position(call.in[1]).err = NoErr
         /\ Position(call.in[2]).err = NoErr )
          => /\ call.out.err # NoErr
                   <=> call.board[Position(call.in[1]).p] = EmptyCell
             /\ call.out.err # NoErr
                   => call.out.err = "no piece at" /\ call.out.board = call.board
    /\ (call.fn = "validMoves" /\ call.board = StartingBoard)
          => \A k \in 1..Len(call.out) :
                Move(call.board,
                     CoordAt(coordsFromIndex(call.in).row, coordsFromIndex(call.in).col),
                     CoordAt(call.out[k].row, call.out[k].col)).err = NoErr

\* C20's case: on the starting Board Move takes the rook from A1 over its
\* own pawn to A5, a destination validMoves does not list.
C20_Witness ==
    /\ call.fn = "Move"
    /\ call.board = StartingBoard
    /\ call.in = <<Str(<<"A","1">>), Str(<<"A","5">>)>>
    /\ call.out.err = NoErr
    /\ call.out.board[Position(Str(<<"A","5">>)).p] = Ord("r")
    /\ validMoves(StartingBoard, Position(Str(<<"A","1">>)).p) = <<>>

\* The king moves that Move treats as castling, and the pawn moves that it
\* ends with a queen, for coordinates in upper case.
IsCastlingMove(board, starts, stops) ==
    \/ /\ board[Position(starts).p] = Ord("k")
       /\ starts = Str(<<"E","1">>)
       /\ stops \in {Str(<<"G","1">>), Str(<<"C","1">>)}
    \/ /\ board[Position(starts).p] = Ord("K")
       /\ starts = Str(<<"E","8">>)
       /\ stops \in {Str(<<"G","8">>), Str(<<"C","8">>)}

IsPromotingMove(board, starts, stops) ==
    \/ board[Position(starts).p] = Ord("p") /\ stops[2] = Ord("8")
    \/ board[Position(starts).p] = Ord("P") /\ stops[2] = Ord("1")

\* C21: Move of an occupied source to another cell, neither a castling king
\* move nor a promoting pawn move, returns a Board with the source's piece on
\* the destination, the source empty and the other 62 cells as they were;
\* Replace returns a Board that differs from the one given in the written
\* cell only; and the Board a function is called on stays what it was.
C21_PlainMoveChangesTwoCells ==
    /\ call.board \in BoardInputs
    /\ ( /\ call.fn = "Move"
         /\ Position(call.in[1]).err = NoErr
         /\ Position(call.in[2]).err = NoErr
         /\ Position(call.in[1]).p # Position(call.in[2]).p
         /\ call.board[Position(call.in[1]).p] # EmptyCell
         /\ ~IsCastlingMove(call.board, ToUpper(call.in[1]), ToUpper(call.in[2]))
         /\ ~IsPromotingMove(call.board, ToUpper(call.in[1]), ToUpper(call.in[2])) )
          => /\ call.out.err = NoErr
             /\ IsBoard(call.out.board)
             /\ \A j \in 0..63 :
                   call.out.board[j] =
                      IF j = Position(call.in[2]).p
                        THEN call.board[Position(call.in[1]).p]
                      ELSE IF j = Position(call.in[1]).p THEN EmptyCell
                      ELSE call.board[j]
    /\ call.fn = "Replace"
          => /\ IsBoard(call.out)
             /\ \A j \in 0..63 :
                   call.out[j] = IF j = call.in[2] THEN call.in[1] ELSE call.board[j]

\* C21's case: the queen on G5 takes the bishop on H6, and G5 is left empty.
C21_Witness ==
    /\ call.fn = "Move"
    /\ call.board = TangledBoard
    /\ call.in = <<Str(<<"G","5">>), Str(<<"H","6">>)>>
    /\ call.board[Position(Str(<<"H","6">>)).p] = Ord("b")
    /\ call.out.board[Position(Str(<<"H","6">>)).p] = Ord("Q")
    /\ call.out.board[Position(Str(<<"G","5">>)).p] = EmptyCell

\* The colour of a piece: the test CoordsToAlgebraic makes of the source cell
\* before it calls Algebraic; lower case is white.
IsWhitePiece(piece) == piece >= Ord("a")

\* The Board a call of Move on src and dst must return when the source's piece
\* arrives as piece.
MovedAs(board, src, dst, piece) ==
    [j \in 0..63 |-> IF j = dst THEN piece ELSE IF j = src THEN EmptyCell ELSE board[j]]

\* C22 as stated: Move("A7","A8") of a black, that is upper-case, pawn puts
\* a black queen on A8 and empties A7, and Move("H2","H1") of a white, that
\* is lower-case, pawn puts a white queen on H1 and empties H2.
C22_BlackPromotesOnRank8 ==
    call.fn = "Move"
      => /\ ( /\ ToUpper(call.in[1]) = Str(<<"A","7">>)
              /\ ToUpper(call.in[2]) = Str(<<"A","8">>)
              /\ call.board[Position(Str(<<"A","7">>)).p] = Ord("P") )
               => /\ call.out.board[Position(Str(<<"A","8">>)).p] = Ord("Q")
                  /\ call.out.board[Position(Str(<<"A","7">>)).p] = EmptyCell
         /\ ( /\ ToUpper(call.in[1]) = Str(<<"H","2">>)
              /\ ToUpper(call.in[2]) = Str(<<"H","1">>)
              /\ call.board[Position(Str(<<"H","2">>)).p] = Ord("p") )
               => /\ call.out.board[Position(Str(<<"H","1">>)).p] = Ord("q")
                  /\ call.out.board[Position(Str(<<"H","2">>)).p] = EmptyCell

\* C22: with lower case white, as Algebraic's flag and the castling from E1
\* have it, Move of a white pawn to rank 8 (as "A7" to "A8") puts a white
\* queen there and Move of a black pawn to rank 1 (as "H2" to "H1") a black
\* queen, the source is emptied and no other cell changes; a pawn moved to
\* any other rank, the other side's far rank included, stays a pawn; and
\* Algebraic called for white finds lower-case pieces only, for black
\* upper-case ones only.
C22_PawnPromotesOnFarRank ==
    /\ ( /\ call.fn = "Move"
         /\ Position(call.in[1]).err = NoErr
         /\ Position(call.in[2]).err = NoErr
         /\ Position(call.in[1]).p # Position(call.in[2]).p
         /\ call.board[Position(call.in[1]).p] \in {Ord("p"), Ord("P")} )
          => call.out.board =
               MovedAs(call.board, Position(call.in[1]).p, Position(call.in[2]).p,
                       IF /\ call.board[Position(call.in[1]).p] = Ord("p")
                          /\ call.in[2][2] = Ord("8")
                         THEN Ord("q")
                       ELSE IF /\ call.board[Position(call.in[1]).p] = Ord("P")
                               /\ call.in[2][2] = Ord("1")
                         THEN Ord("Q")
                       ELSE call.board[Position(call.in[1]).p])
    /\ ( /\ call.fn = "Algebraic"
         /\ call.out.err = NoErr
         /\ call.in[1][1] # Ord("O") )
          => /\ call.board[Position(call.out.src).p] # EmptyCell
             /\ IsWhitePiece(call.board[Position(call.out.src).p]) <=> call.in[2]

\* C22's case: the white pawn on A7 moves to A8 and is a white queen there.
C22_Witness ==
    /\ call.fn = "Move"
    /\ call.in = <<Str(<<"A","7">>), Str(<<"A","8">>)>>
    /\ call.board[Position(Str(<<"A","7">>)).p] = Ord("p")
    /\ call.out.board[Position(Str(<<"A","8">>)).p] = Ord("q")
    /\ call.out.board[Position(Str(<<"A","7">>)).p] = EmptyCell

\* The Board after a castling: the king on its destination, the rook on the
\* cell next to it, the king's home and the corner empty.
Castled(board, king, rook, home, dest, corner, next) ==
    [j \in 0..63 |-> IF j = Position(dest).p THEN king
                     ELSE IF j = Position(next).p THEN rook
                     ELSE IF j \in {Position(home).p, Position(corner).p} THEN EmptyCell
                     ELSE board[j]]

\* C23: Move of the king 'k' from E1 to G1 or C1, and of the king 'K' from
\* E8 to G8 or C8, succeeds and returns the Board with the king on the
\* destination, a rook of the king's case on F1/D1 (F8/D8), the king's home
\* and the corner H1/A1 (H8/A8) empty, and every other cell as it was.
C23_Castling ==
    ( /\ call.fn = "Move"
      /\ Position(call.in[1]).err = NoErr
      /\ Position(call.in[2]).err = NoErr
      /\ IsCastlingMove(call.board, ToUpper(call.in[1]), ToUpper(call.in[2])) )
       => /\ call.out.err = NoErr
          /\ call.out.board =
               IF ToUpper(call.in[2]) = Str(<<"G","1">>)
                 THEN Castled(call.board, Ord("k"), Ord("r"), Str(<<"E","1">>),
                              Str(<<"G","1">>), Str(<<"H","1">>), Str(<<"F","1">>))
               ELSE IF ToUpper(call.in[2]) = Str(<<"C","1">>)
                 THEN Castled(call.board, Ord("k"), Ord("r"), Str(<<"E","1">>),
                              Str(<<"C","1">>), Str(<<"A","1">>), Str(<<"D","1">>))
               ELSE IF ToUpper(call.in[2]) = Str(<<"G","8">>)
                 THEN Castled(call.board, Ord("K"), Ord("R"), Str(<<"E","8">>),
                              Str(<<"G","8">>), Str(<<"H","8">>), Str(<<"F","8">>))
               ELSE Castled(call.board, Ord("K"), Ord("R"), Str(<<"E","8">>),
                            Str(<<"C","8">>), Str(<<"A","8">>), Str(<<"D","8">>))

\* C23's case: on the starting Board with F1 and G1 cleared Move from E1 to
\* G1 gives the king on G1, the rook on F1, E1 and H1 empty.
C23_Witness ==
    /\ call.fn = "Move"
    /\ call.board = CastlingBoard
    /\ call.in = <<Str(<<"E","1">>), Str(<<"G","1">>)>>
    /\ call.out.board[Position(Str(<<"G","1">>)).p] = Ord("k")
    /\ call.out.board[Position(Str(<<"F","1">>)).p] = Ord("r")
    /\ call.out.board[Position(Str(<<"E","1">>)).p] = EmptyCell
    /\ call.out.board[Position(Str(<<"H","1">>)).p] = EmptyCell
    /\ \A j \in 0..55 : call.out.board[j] = StartingBoard[j]

\* validMoves of the piece at index p lists the cell at index dst.
Reaches(board, p, dst) ==
    \E k \in 1..Len(validMoves(board, p)) : validMoves(board, p)[k] = coordsFromIndex(dst)

\* A call of CoordsToAlgebraic on the starting Board for an occupied source
\* and a destination that validMoves lists for it.
OpeningMoveCalled ==
    /\ call.fn = "CoordsToAlgebraic"
    /\ call.board = StartingBoard
    /\ call.board[Position(call.in[1]).p] # EmptyCell
    /\ Reaches(call.board, Position(call.in[1]).p, Position(call.in[2]).p)

\* C24 as stated: on the starting Board, for every piece and every
\* destination in its validMoves, CoordsToAlgebraic succeeds and Algebraic of
\* the notation, for the piece's colour, returns the pair (src, dst) that
\* was given, ("G1", "F3") for "Nf3".
C24_RoundTripGivesBackTheCoordinates ==
    /\ OpeningMoveCalled
          => /\ call.out.err = NoErr
             /\ Algebraic(call.board, call.out.alg,
                          IsWhitePiece(call.board[Position(call.in[1]).p]))
                   = [src |-> call.in[1], dst |-> call.in[2], err |-> NoErr]
    /\ ( /\ call.fn = "Algebraic"
         /\ call.board = StartingBoard
         /\ call.in = <<Str(<<"N","f","3">>), TRUE>> )
          => call.out = [src |-> Str(<<"G","1">>), dst |-> Str(<<"F","3">>),
                         err |-> NoErr]

\* C24: on the starting Board, for every piece and every destination in its
\* validMoves, CoordsToAlgebraic succeeds and Algebraic of the notation, for
\* the piece's colour, returns the source in upper case and the destination
\* in lower case, as the notation has it: CoordsToAlgebraic("G1", "F3") is
\* "Nf3" and Algebraic("Nf3", true) is ("G1", "f3"), the same two cells.
C24_RoundTripUpToCase ==
    /\ OpeningMoveCalled
          => /\ call.out.err = NoErr
             /\ Algebraic(call.board, call.out.alg,
                          IsWhitePiece(call.board[Position(call.in[1]).p]))
                   = [src |-> call.in[1], dst |-> ToLower(call.in[2]), err |-> NoErr]
             /\ Position(ToLower(call.in[2])).p = Position(call.in[2]).p
    /\ ( /\ call.fn = "CoordsToAlgebraic"
         /\ call.board = StartingBoard
         /\ call.in = <<Str(<<"G","1">>), Str(<<"F","3">>)>> )
          => call.out = [alg |-> Str(<<"N","f","3">>), err |-> NoErr]
    /\ ( /\ call.fn = "Algebraic"
         /\ call.board = StartingBoard
         /\ call.in = <<Str(<<"N","f","3">>), TRUE>> )
          => call.out = [src |-> Str(<<"G","1">>), dst |-> Str(<<"f","3">>),
                         err |-> NoErr]

\* C24's case: the knight's opening move from G1 to F3 is written "Nf3".
C24_Witness ==
    /\ OpeningMoveCalled
    /\ call.in = <<Str(<<"G","1">>), Str(<<"F","3">>)>>
    /\ call.out.alg = Str(<<"N","f","3">>)

\* The candidate notation try gives back the pair (srcs, dsts), the
\* destination in either case.
RoundTrips(board, try, white, srcs, dsts) ==
    /\ Algebraic(board, try, white).err = NoErr
    /\ Algebraic(board, try, white).src = srcs
    /\ ToUpper(Algebraic(board, try, white).dst) = dsts

\* The three candidates of a call of CoordsToAlgebraic.
TriesOfCall ==
    AlgebraicTries(UpperByte(call.board[Position(call.in[1]).p]),
                   IF call.board[Position(call.in[2]).p] # EmptyCell
                     THEN <<Ord("x")>> ELSE <<>>,
                   Ord("a") + coordsFromIndex(Position(call.in[1]).p).col,
                   coordsFromIndex(Position(call.in[1]).p).row,
                   call.in[2])

\* C25: for an occupied source and any destination, a notation that
\* CoordsToAlgebraic returns is one that Algebraic, for the colour of the
\* source's piece, takes back to the pair (src, dst); and it fails, finding
\* no valid move, exactly when none of its three candidates does.
C25_AcceptedOnlyIfRoundTrips ==
    ( /\ call.fn = "CoordsToAlgebraic"
      /\ call.board[Position(call.in[1]).p] # EmptyCell )
       => /\ call.out.err = NoErr
                => RoundTrips(call.board, call.out.alg,
                              IsWhitePiece(call.board[Position(call.in[1]).p]),
                              call.in[1], call.in[2])
          /\ call.out.err # NoErr
                <=> \A i \in 1..3 :
                       ~RoundTrips(call.board, TriesOfCall[i],
                                   IsWhitePiece(call.board[Position(call.in[1]).p]),
                                   call.in[1], call.in[2])

\* The parts of a notation made of a piece letter, an optional source file,
\* an optional source rank and a destination, read from its two ends.
NotationPiece(move) == move[1]
NotationDst(move) == <<move[Len(move) - 1], move[Len(move)]>>
NotationFile(move) ==
    IF Len(move) > 3 /\ IsFileLetter(move[2]) THEN <<move[2]>> ELSE <<>>
NotationRank(move) ==
    IF Len(move) > 3 /\ IsRankDigit(move[Len(move) - 2])
      THEN <<move[Len(move) - 2]>> ELSE <<>>

\* A call of Algebraic with such a notation.
WellFormedCalled ==
    /\ call.fn = "Algebraic"
    /\ Len(call.in[1]) \in 3..5
    /\ IsPieceLetter(call.in[1][1])

\* The set S of a call of Algebraic: the squares that hold the named piece of
\* the side to move, are on the given source file and rank, and whose
\* validMoves contain the destination.
SourcesOfCall ==
    { p \in 0..63 :
        /\ call.board[p] = (IF call.in[2] THEN NotationPiece(call.in[1]) + 32
                                           ELSE NotationPiece(call.in[1]))
        /\ NotationFile(call.in[1]) # <<>>
              => coordsFromIndex(p).col = NotationFile(call.in[1])[1] - Ord("a")
        /\ NotationRank(call.in[1]) # <<>>
              => coordsFromIndex(p).row = NotationRank(call.in[1])[1] - Ord("0")
        /\ Reaches(call.board, p, Position(NotationDst(call.in[1])).p) }

\* C26: where two or more pieces of the named kind, not pawns, of the side to
\* move reach the same empty destination, Algebraic of the piece letter and
\* the destination fails with "ambiguous move" and returns no source.
C26_AmbiguousMove ==
    ( /\ WellFormedCalled
      /\ Len(call.in[1]) = 3
      /\ NotationPiece(call.in[1]) # Ord("P")
      /\ call.board[Position(NotationDst(call.in[1])).p] = EmptyCell
      /\ Cardinality(SourcesOfCall) >= 2 )
       => call.out = [src |-> <<>>, dst |-> <<>>, err |-> "ambiguous move"]

\* C26's case: the white rooks on A1 and H1 both reach D1, and "Rd1" for
\* white is ambiguous.
C26_Witness ==
    /\ WellFormedCalled
    /\ call.in = <<Str(<<"R","d","1">>), TRUE>>
    /\ SourcesOfCall = {Position(Str(<<"A","1">>)).p, Position(Str(<<"H","1">>)).p}
    /\ call.out.err = "ambiguous move"

\* C27: for a well-formed notation that is no castling, Algebraic returns
\* the only square of S and the destination when S has one element, fails
\* with "no matching move" when S is empty, and fails with "ambiguous move"
\* when S has more than one element and in no other case.
C27_OutcomeDeterminedBySources ==
    WellFormedCalled
       => /\ Cardinality(SourcesOfCall) = 0 => call.out.err = "no matching move"
          /\ Cardinality(SourcesOfCall) > 1 <=> call.out.err = "ambiguous move"
          /\ Cardinality(SourcesOfCall) = 1
                => /\ call.out.err = NoErr
                   /\ Position(call.out.src).p \in SourcesOfCall
                   /\ ToLower(call.out.dst) = NotationDst(call.in[1])

\* A call of validMoves on a cell that holds a pawn, and the pawn's row,
\* column, direction (towards rank 8 for 'p', towards rank 1 for 'P') and
\* home rank.
PawnCalled == call.fn = "validMoves" /\ call.board[call.in] \in {Ord("p"), Ord("P")}
PawnRow == coordsFromIndex(call.in).row
PawnCol == coordsFromIndex(call.in).col
PawnDir == IF call.board[call.in] = Ord("p") THEN 1 ELSE -1
PawnHome == IF call.board[call.in] = Ord("p") THEN 2 ELSE 7

\* The result of the call lists the cell (row, col).
Lists(row, col) == \E k \in 1..Len(call.out) : call.out[k] = [row |-> row, col |-> col]

\* C28: validMoves of a pawn lists the square two ahead exactly when the
\* pawn is on its home rank and the square one ahead and the square two
\* ahead are both empty.
C28_TwoStepNeedsBothCellsEmpty ==
    PawnCalled
       => ( Lists(PawnRow + (2 * PawnDir), PawnCol)
               <=> /\ PawnRow = PawnHome
                   /\ empty(call.board, PawnRow + PawnDir, PawnCol)
                   /\ empty(call.board, PawnRow + (2 * PawnDir), PawnCol) )

\* The cell holds a piece of the other colour than piece.
HoldsOpponent(board, piece, row, col) ==
    /\ board[indexFromCoords(row, col)] # EmptyCell
    /\ IsWhitePiece(board[indexFromCoords(row, col)]) # IsWhitePiece(piece)

\* The pawn of the other colour.
OpposingPawn(piece) == IF piece = Ord("p") THEN Ord("P") ELSE Ord("p")

\* What validMoves of a pawn lists when the adjacent-pawn capture is given
\* to the white pawn on rank whiteRank and to the black one on blackRank:
\* the square one ahead iff it is empty, and a diagonal-forward square iff
\* it holds an opponent or the pawn is on that rank with an opposing pawn
\* next to it on that side.
PawnRule(whiteRank, blackRank) ==
    PawnCalled
       => IF PawnRow + PawnDir \notin 1..8 THEN call.out = <<>>
          ELSE /\ Lists(PawnRow + PawnDir, PawnCol)
                     <=> empty(call.board, PawnRow + PawnDir, PawnCol)
               /\ \A side \in {-1, 1} :
                     PawnCol + side \in 0..7
                        => ( Lists(PawnRow + PawnDir, PawnCol + side)
                               <=> \/ HoldsOpponent(call.board, call.board[call.in],
                                                    PawnRow + PawnDir, PawnCol + side)
                                   \/ /\ PawnRow = (IF IsWhitePiece(call.board[call.in])
                                                       THEN whiteRank ELSE blackRank)
                                      /\ call.board[indexFromCoords(PawnRow, PawnCol + side)]
                                            = OpposingPawn(call.board[call.in]) )

\* C29 as stated: the adjacent-pawn capture is given to a white pawn on
\* rank 4 and to a black pawn on rank 5.
C29_AdjacentPawnCaptureOnRank4White ==
    PawnRule(4, 5)

\* C29: validMoves of a pawn lists the square one ahead iff it is empty, and
\* a diagonal-forward square iff an opponent is on it or the pawn stands on
\* rank 5 (white, lower case) or rank 4 (black, upper case) with an opposing
\* pawn next to it on that side of the same rank; nothing but the Board is
\* consulted.
C29_AdjacentPawnCaptureOnRank5White ==
    PawnRule(5, 4)

\* C29's case: the black pawn on E4 has the white pawn on F4 next to it and
\* gets the empty square F3.
C29_Witness ==
    /\ PawnCalled
    /\ call.board = TangledBoard
    /\ call.in = Position(Str(<<"E","4">>)).p
    /\ call.board[Position(Str(<<"F","4">>)).p] = Ord("p")
    /\ empty(call.board, 3, 5)
    /\ Lists(3, 5)

\* The directions of a rook, of a bishop and of a queen, as (row, column)
\* steps.
Orthogonals == {<<1, 0>>, <<-1, 0>>, <<0, 1>>, <<0, -1>>}
Diagonals == {<<1, 1>>, <<1, -1>>, <<-1, 1>>, <<-1, -1>>}
RayDirections(piece) ==
    IF piece \in {Ord("R"), Ord("r")} THEN Orthogonals
    ELSE IF piece \in {Ord("B"), Ord("b")} THEN Diagonals
    ELSE IF piece \in {Ord("Q"), Ord("q")} THEN Orthogonals \cup Diagonals
    ELSE {}

\* The reference ray-cast set of the piece at pos: the cells at distance n
\* along a direction that are on the board, with every cell before them
\* empty, and that are empty or hold an opponent.
RayCast(board, pos) ==
    { [row |-> coordsFromIndex(pos).row + (n * d[1]),
       col |-> coordsFromIndex(pos).col + (n * d[2])] :
        <<d, n>> \in
          { dn \in RayDirections(board[pos]) \X (1..7) :
              /\ coordsFromIndex(pos).row + (dn[2] * dn[1][1]) \in 1..8
              /\ coordsFromIndex(pos).col + (dn[2] * dn[1][2]) \in 0..7
              /\ \A m \in 1..(dn[2] - 1) :
                    empty(board, coordsFromIndex(pos).row + (m * dn[1][1]),
                                 coordsFromIndex(pos).col + (m * dn[1][2]))
              /\ \/ empty(board, coordsFromIndex(pos).row + (dn[2] * dn[1][1]),
                                  coordsFromIndex(pos).col + (dn[2] * dn[1][2]))
                 \/ HoldsOpponent(board, board[pos],
                                  coordsFromIndex(pos).row + (dn[2] * dn[1][1]),
                                  coordsFromIndex(pos).col + (dn[2] * dn[1][2])) } }

\* C30: validMoves of a rook, a bishop or a queen, at any index, lists
\* exactly the cells of the reference ray-cast set, each once: along each
\* direction the empty cells up to the first piece, that piece's cell iff it
\* is an opponent, nothing beyond it and nothing off the board or on another
\* row by wrap-around.
C30_RayCast ==
    ( /\ call.fn = "validMoves"
      /\ RayDirections(call.board[call.in]) # {} )
       => /\ {call.out[k] : k \in 1..Len(call.out)} = RayCast(call.board, call.in)
          /\ Len(call.out) = Cardinality(RayCast(call.board, call.in))
          /\ \A k \in 1..Len(call.out) :
                call.out[k].row \in 1..8 /\ call.out[k].col \in 0..7

\* C30's case: the black queen on G5 gets the white bishop's cell H6 and the
\* empty cells towards its own pawn on D5, but neither that pawn's cell nor
\* any cell behind it.
C30_Witness ==
    /\ call.fn = "validMoves"
    /\ call.board = TangledBoard
    /\ call.in = Position(Str(<<"G","5">>)).p
    /\ call.board[call.in] = Ord("Q")
    /\ Lists(6, 7)
    /\ Lists(5, 4)
    /\ ~Lists(5, 3)
    /\ ~Lists(5, 2)

\* The 8 L-shaped offsets of a knight and the 8 adjacent offsets of a king,
\* as (row, column) steps.
HopOffsets(piece) ==
    IF piece \in {Ord("N"), Ord("n")}
      THEN {<<2, 1>>, <<2, -1>>, <<-2, 1>>, <<-2, -1>>,
            <<1, 2>>, <<1, -2>>, <<-1, 2>>, <<-1, -2>>}
    ELSE IF piece \in {Ord("K"), Ord("k")}
      THEN (Orthogonals \cup Diagonals)
    ELSE {}

\* The cells at those offsets from pos that are on the board and are empty
\* or hold a piece of the other colour.
HopSet(board, pos) ==
    { [row |-> coordsFromIndex(pos).row + d[1], col |-> coordsFromIndex(pos).col + d[2]] :
        d \in { e \in HopOffsets(board[pos]) :
                  /\ coordsFromIndex(pos).row + e[1] \in 1..8
                  /\ coordsFromIndex(pos).col + e[2] \in 0..7
                  /\ \/ empty(board, coordsFromIndex(pos).row + e[1],
                                      coordsFromIndex(pos).col + e[2])
                     \/ HoldsOpponent(board, board[pos],
                                      coordsFromIndex(pos).row + e[1],
                                      coordsFromIndex(pos).col + e[2]) } }

\* C31: validMoves of a knight and of a king, at any index, lists exactly
\* the cells on the board at the 8 L-shaped (the 8 adjacent) offsets that are
\* empty or hold an opponent, each once; for a king no cell two files away
\* is listed, so no castling destination.
C31_KnightAndKing ==
    ( /\ call.fn = "validMoves"
      /\ HopOffsets(call.board[call.in]) # {} )
       => /\ {call.out[k] : k \in 1..Len(call.out)} = HopSet(call.board, call.in)
          /\ Len(call.out) = Cardinality(HopSet(call.board, call.in))
          /\ call.board[call.in] \in {Ord("K"), Ord("k")}
                => \A k \in 1..Len(call.out) :
                      /\ call.out[k].col - coordsFromIndex(call.in).col \in {-1, 0, 1}
                      /\ call.out[k].row - coordsFromIndex(call.in).row \in {-1, 0, 1}

\* C31's case: the black king in the corner H8 gets the white knight's cell
\* G8 and the two empty cells next to it, and nothing else.
C31_Witness ==
    /\ call.fn = "validMoves"
    /\ call.board = SparseBoard
    /\ call.in = Position(Str(<<"H","8">>)).p
    /\ call.board[call.in] = Ord("K")
    /\ call.board[Position(Str(<<"G","8">>)).p] = Ord("n")
    /\ Lists(8, 6)
    /\ Len(call.out) = 3

(***************************************************************************)
(* Further properties of the session.                                      *)
(***************************************************************************)
\* This step is user's ClaimSide of color on channel ch, reaching its case.
ClaimSideApplied(ch, user, color) ==
    /\ now' = now
    /\ reply' \in {"ClaimedBlack", "ClaimedWhite"}
    /\ ClaimSide(ch, user, color, ~Lookup(ch).Allowed)

\* C32: ClaimSide(user, color) makes user the claimant of that colour and
\* leaves every other field of the session as it was, the other side's
\* claimant included, so that a user can hold both sides; applied again to
\* the session it leaves, it leaves the same session.
C32_ClaimSide ==
    [][\A ch \in Channels, c \in ClaimPairs :
         ClaimSideApplied(ch, c[1], c[2])
            => /\ IF c[2] = "black" THEN games'[ch].Black = c[1]
                                     ELSE games'[ch].White = c[1]
               /\ SameBut(Lookup(ch), games'[ch],
                          IF c[2] = "black" THEN {"Black"} ELSE {"White"})
               /\ ClaimSideResult(games'[ch], c[1], c[2]).game = games'[ch]]_vars

\* C32's case: alice, who holds white, has claimed black as well, one move
\* into the game.
C32_Witness ==
    /\ reply = "ClaimedBlack"
    /\ \E ch \in DOMAIN games :
          /\ games[ch].White = "alice"
          /\ games[ch].Black = "alice"
          /\ games[ch].WhiteOk
          /\ Len(games[ch].Moves) = 1

\* C33: where both readiness flags are true already, a Start by any user, a
\* player or not, is answered as a start, sets the turn to white and the
\* tick to the present time, also when black was on move, and changes
\* nothing else, Board and histories included; white's claimant is then on
\* move again: the move case takes a move of theirs to the move closure.
C33_StartAgain ==
    [][\A ch \in Channels, user \in Users :
         ( /\ StartApplied(ch, user)
           /\ Lookup(ch).WhiteOk
           /\ Lookup(ch).BlackOk )
            => /\ reply' = "Started"
               /\ games'[ch].PlayingWhite
               /\ games'[ch].TickFrom = now
               /\ SameBut(Lookup(ch), games'[ch], {"PlayingWhite", "TickFrom"})
               /\ \A mover \in Users :
                    mover = games'[ch].White
                       => MoveByUser(games'[ch], mover, Str(<<"A","1">>),
                                     Str(<<"A","5">>), <<>>).reply
                             \in {"WhiteMoved", "InvalidMove"}]_vars

\* C33's case: white has moved, so that black was on move, and after a
\* Start at a later time it is white's move again, the one move still in
\* the history.
C33_Witness ==
    /\ reply = "Started"
    /\ \E ch \in DOMAIN games :
          /\ HistOf(ch).sinceMove = "white"
          /\ games[ch].PlayingWhite
          /\ games[ch].TickFrom = now
          /\ games[ch].TickFrom > 1
          /\ Len(games[ch].Moves) = 1
          /\ games[ch].Board # StartingBoard

\* This step is user's Resign on channel ch, reaching its case.
ResignApplied(ch, user) ==
    /\ now' = now
    /\ reply' = "Resigned"
    /\ Resign(ch, user, ~Lookup(ch).Allowed)

\* C34: a Resign by any user, a player on move, a player not on move or no
\* player, sets the winner to black's claimant when white is on move and to
\* white's claimant otherwise, and changes nothing else; the Game it leaves
\* is the same whoever resigns.
C34_ResignIgnoresTheUser ==
    [][\A ch \in Channels, user \in Users :
         ResignApplied(ch, user)
            => /\ games'[ch].Winner = IF Lookup(ch).PlayingWhite THEN Lookup(ch).Black
                                       ELSE Lookup(ch).White
               /\ SameBut(Lookup(ch), games'[ch], {"Winner"})
               /\ \A other \in Users :
                    ResignResult(Lookup(ch), other).game = games'[ch]]_vars

\* C34's case: after a Resign with white on move, two moves into a game of
\* alice (white) against bob (black), bob is the winner.
C34_Witness ==
    /\ reply = "Resigned"
    /\ \E ch \in DOMAIN games :
          /\ games[ch].White = "alice"
          /\ games[ch].Black = "bob"
          /\ games[ch].PlayingWhite
          /\ Len(games[ch].Moves) = 2
          /\ games[ch].Winner = "bob"

\* C35: a Reset leaves the channel with a session in which chess is not
\* allowed, whether or not it was allowed before; and right after a Reset no
\* ClaimSide, Start, SubmitMove, TakeBack, Resign, DeclareWinner or
\* ClearWinner changes the channel's session as long as no SetAllowed(true)
\* was applied.
C35_NothingAfterResetUntilAllowed ==
    [][\A ch \in TwoChannels :
         /\ ResetApplied(ch) => ~LookupAfter(ch).Allowed
         /\ ( /\ reply = "Reset"
              /\ Lookup(ch) = NewGame
              /\ LookupAfter(ch) # Lookup(ch) )
               => reply' \notin (GatedOperationReplies \ {"Reset"})]_vars

\* C36: the lookup of a previous board reads entry N only when N is below
\* the length of the board history; an N at or above the length is refused
\* without indexing the history, so no message makes the session read
\* outside the history, the empty history included.
C36_LookupStaysInsideTheHistory ==
    [][reply' \notin OutOfRangeReplies]_vars

\* C37: for every Board and every occupied index, validMoves lists no
\* square that holds a piece of the colour of the piece on the index (every
\* listed square is empty or holds an opponent), the squares of the pawn's
\* adjacent-pawn capture included.
C37_NoDestinationHoldsOwnPiece ==
    ( /\ call.fn = "validMoves"
      /\ call.board[call.in] # EmptyCell )
       => \A k \in 1..Len(call.out) :
             \/ empty(call.board, call.out[k].row, call.out[k].col)
             \/ HoldsOpponent(call.board, call.board[call.in],
                              call.out[k].row, call.out[k].col)

\* The call of Move names one occupied square as source and as destination.
SameSquareCalled ==
    /\ call.fn = "Move"
    /\ ToUpper(call.in[1]) = ToUpper(call.in[2])
    /\ Position(ToUpper(call.in[1])).err = NoErr
    /\ call.board[Position(ToUpper(call.in[1])).p] # EmptyCell

\* The message "E1 E1" was handled on a Board whose E1 is occupied.
SameSquareSubmitted ==
    /\ call.fn = "Incoming"
    /\ call.in = "E1 E1"
    /\ call.board[Position(Str(<<"E","1">>)).p] # EmptyCell

\* C38: Move(s, s) on an occupied square s returns no error and the Board
\* with s empty and every other cell as it was; a move message whose source
\* is its destination, from the side on move, is therefore accepted, takes
\* the piece off the Board, appends to both histories and gives the turn to
\* the other side.
C38_MoveOntoItsOwnSquare ==
    /\ SameSquareCalled
          => /\ call.out.err = NoErr
             /\ call.out.board =
                   [call.board EXCEPT ![Position(ToUpper(call.in[1])).p] = EmptyCell]
    /\ SameSquareSubmitted
          => /\ call.out.reply = "BlackMoved"
             /\ call.out.game.Board =
                   [call.board EXCEPT ![Position(Str(<<"E","1">>)).p] = EmptyCell]
             /\ call.out.game.Previous = Append(SessionOn(call.board).Previous, call.board)
             /\ call.out.game.Moves =
                   Append(SessionOn(call.board).Moves, Str(<<"E","1"," ","E","1">>))
             /\ call.out.game.PlayingWhite = ~SessionOn(call.board).PlayingWhite

C38_Witness ==
    /\ SameSquareSubmitted
    /\ call.board = StartingBoard
    /\ call.board[Position(Str(<<"E","1">>)).p] = Ord("k")
    /\ call.out.reply = "BlackMoved"
    /\ call.out.game.Board[Position(Str(<<"E","1">>)).p] = EmptyCell
    /\ Len(call.out.game.Previous) = 2

\* The number of cells of the Board that hold one of the pieces.
CountOf(board, pieces) == Cardinality({i \in 0..63 : board[i] \in pieces})
NonEmptyCells(board) == Cardinality({i \in 0..63 : board[i] # EmptyCell})

\* C39: in a session that starts from the starting Board, the Board never
\* holds more than 32 pieces, and no successful move increases the number of
\* non-empty cells, of white rooks or of black rooks, the king's moves from
\* E1 and E8 to the castling destinations included.
C39_MovesNeverAddPieces ==
    [][/\ NonEmptyCells(LookupAfter("chess").Board) <= 32
       /\ reply' \in {"WhiteMoved", "BlackMoved"}
            => /\ NonEmptyCells(LookupAfter("chess").Board)
                    <= NonEmptyCells(Lookup("chess").Board)
               /\ CountOf(LookupAfter("chess").Board, {Ord("r")})
                    <= CountOf(Lookup("chess").Board, {Ord("r")})
               /\ CountOf(LookupAfter("chess").Board, {Ord("R")})
                    <= CountOf(Lookup("chess").Board, {Ord("R")})]_vars

\* The source of the coordinate move named by text holds a piece.
SourceOccupied(game, user, text) ==
    /\ ~AlgebraicRxMatch(text)
    /\ MoveCoords(game, user, text).reply = "ok"
    /\ game.Board[Position(MoveCoords(game, user, text).start).p] # EmptyCell

\* C40: a coordinate move sent by the claimant of the side on move, in a
\* game without a winner, is accepted whenever its source holds a piece,
\* whatever the piece's colour and whether or not validMoves lists the
\* destination: the Board becomes what Board.Move returns, both histories
\* grow by one and the turn passes to the other side.
C40_AnyCoordinateMoveIsAccepted ==
    [][\A user \in Users, text \in MoveTexts :
         ( /\ SubmitMoveApplied("chess", user, text)
           /\ Lookup("chess").Winner = ""
           /\ OnMove(Lookup("chess"), user)
           /\ SourceOccupied(Lookup("chess"), user, text) )
           => /\ reply' \in {"WhiteMoved", "BlackMoved"}
              /\ SuccessfulMoveEffect(Lookup("chess"), LookupAfter("chess"),
                                      MoveCoords(Lookup("chess"), user, text).start,
                                      MoveCoords(Lookup("chess"), user, text).end)]_vars

\* C40's case: the pawn on E7 was moved by one side and the rook on A1 by
\* the other, one of them by the opponent of its owner, and the rook over
\* its own pawn to a square validMoves does not list.
C40_Witness ==
    /\ reply \in {"WhiteMoved", "BlackMoved"}
    /\ Len(Lookup("chess").Previous) = 2
    /\ Lookup("chess").Previous[1] = StartingBoard
    /\ Lookup("chess").Board[Position(Str(<<"E","5">>)).p] = Ord("P")
    /\ Lookup("chess").Board[Position(Str(<<"E","7">>)).p] = EmptyCell
    /\ Lookup("chess").Board[Position(Str(<<"A","5">>)).p] = Ord("r")
    /\ Lookup("chess").Board[Position(Str(<<"A","2">>)).p] = Ord("p")
    /\ Lookup("chess").Board[Position(Str(<<"A","1">>)).p] = EmptyCell
    /\ \A k \in 1..Len(validMoves(StartingBoard, Position(Str(<<"A","1">>)).p)) :
          validMoves(StartingBoard, Position(Str(<<"A","1">>)).p)[k] # [row |-> 5, col |-> 0]

=============================================================================
